---- MODULE Spec2Model ----
(***************************************************************************)
(* Kiroflix WhatsApp bot (src/unnamed/part_000, the most complete          *)
(* revision; src/index.js and src/unnamed/part_001 are earlier drafts).    *)
(*                                                                         *)
(* The process is one Node event loop.  Every async function runs          *)
(* atomically from one `await` to the next, so an action of this model is  *)
(* the continuation that runs when one awaited operation settles: it takes *)
(* the outcome of that operation as its input and runs the code up to the  *)
(* next `await`, which it issues.  `pc` names the operation a pipeline is  *)
(* suspended on.                                                           *)
(*                                                                         *)
(* Specifications:                                                         *)
(*   SpecDispatch  several chats and senders; the routed handlers          *)
(*                 (handleAnimeRequest, handleManhwaRequest,               *)
(*                 handleGeneralRequest) settle as one action each.        *)
(*   Spec          handleMessage with handleAnimeRequest and               *)
(*                 generateStream step by step, one direct chat.           *)
(*   SpecSelect    the episode / chapter selectors and the best-match      *)
(*                 choosers applied to catalog lists.                      *)
(*   SpecUpsert    one inbound event kept next to the pipeline it starts.  *)
(*   SpecChunks    the chunk split of generateSubtitle, every line count.  *)
(*   SpecSubtitle  one generateSubtitle call, step by step.                *)
(*   SpecManhwa    one handleManhwaRequest call, step by step.             *)
(*   SpecStrips    the strip split of normalizeAndSplitImages for one      *)
(*                 image of every height.                                  *)
(*   SpecHandlers  the pipelines of Spec, or one handleManhwaRequest call  *)
(*                 once the messages are handled.                          *)
(*   SpecStatus    the connection.update handler and the status page.      *)
(*   SpecLive      Spec, or one generateSubtitle call, where every awaited *)
(*                 operation settles.                                      *)
(*   SpecIndex     handleMessage of src/index.js with its handleAnimeRequest,*)
(*                 which is declared outside startBot.                     *)
(*   SpecDrop      one direct chat with one message more than the other    *)
(*                 specifications, the routed handlers as one action each. *)
(***************************************************************************)
EXTENDS Integers, Sequences, FiniteSets, TLC

VARIABLES userLocks, p, catalog, sel, inbound, mw, sub, qrCodeDataURL, session

vars == <<userLocks, p, catalog, sel, inbound, mw, sub, qrCodeDataURL, session>>

\* ------------------------------------------------------------------ bounds

\* Inbound message events in one behaviour.
MaxMsgs == 2

\* Longest episode / chapter list of SpecSelect.
MaxList == 3

\* Most tokens in the text of the inbound message of SpecUpsert.
MaxText == 3

\* Most tokens in the text of an inbound message of SpecDispatch, where
\* only the command and an empty rest matter.
MaxShortText == 2

\* Most tokens in the text of an inbound message of the specifications of
\* one direct chat, where only an empty text matters.
MaxDirectText == 1

\* Most lines of a base subtitle in SpecChunks.
MaxLines == 250

\* Most page URLs of a chapter in SpecManhwa.
MaxPages == 3

\* Most connection.update events of SpecStatus.
MaxEvents == 5

\* Tallest normalized image of SpecStrips, in pixels.
MaxImageHeight == 4100

\* Most pages one downloaded image is cut into in SpecManhwa.
MaxStrips == 2

\* ------------------------------------------------------------- JS values
\* A catalog number field or an intent number is a JSON number or a JSON
\* string of decimal digits.  t is the JS type; v the value of a number;
\* s the digits of a string.

Num(n) == [t |-> "number", v |-> n, s |-> <<>>]

Str(digits) == [t |-> "string", v |-> 0, s |-> digits]

RECURSIVE DecimalValue(_)
DecimalValue(digits) ==
    IF digits = <<>> THEN 0
    ELSE 10 * DecimalValue(SubSeq(digits, 1, Len(digits) - 1)) + digits[Len(digits)]

\* Number(x): a number is itself, a digit string is parsed.
Number(x) == IF x.t = "number" THEN x.v ELSE DecimalValue(x.s)

\* a === b: no coercion, the types must agree.
StrictEquals(a, b) == a.t = b.t /\ a.v = b.v /\ a.s = b.s

\* Array.prototype.find, given the indices whose element passes the test:
\* the first of them, 0 if none.
FindIndex(hits) ==
    IF hits = {} THEN 0 ELSE CHOOSE i \in hits : \A j \in hits : i <= j

\* --------------------------------------------------- episode selector

NotReleased == "not released yet"

NoEpisode == [id |-> 0, number |-> Num(0)]

\* The test without the coercion: e.number === intent.episode.
EpisodeMatchesStrict(e, requested) == StrictEquals(e.number, requested)

\* episodes.find(e => Number(e.number) === Number(intent.episode))
EpisodeMatches(e, requested) == Number(e.number) = Number(requested)

\* episodes.reduce((max, ep) => Number(ep.number) > Number(max.number) ? ep : max)
RECURSIVE ReduceLatest(_, _, _)
ReduceLatest(episodes, i, max) ==
    IF i > Len(episodes) THEN max
    ELSE ReduceLatest(episodes, i + 1,
            IF Number(episodes[i].number) > Number(max.number)
            THEN episodes[i] ELSE max)

\* A fallback that takes the first entry of the list.
LatestEpisodeFirst(episodes) == episodes[1]

LatestEpisode(episodes) == ReduceLatest(episodes, 2, episodes[1])

\* handleAnimeRequest, "Find requested episode": the episode and the notice
\* that goes in front of the caption.
SelectEpisode(episodes, requested) ==
    LET i == FindIndex({j \in 1..Len(episodes) : EpisodeMatches(episodes[j], requested)})
    IN  IF i # 0
        THEN [episode |-> episodes[i], notReleasedMessage |-> ""]
        ELSE [episode |-> LatestEpisode(episodes), notReleasedMessage |-> NotReleased]

\* --------------------------------------------------- chapter selector

NoChapter == [url |-> 0, chapter_no |-> Num(0)]

\* details.chapters.find(c => c.chapter_no === intent.chapter)
ChapterMatches(c, requested) == StrictEquals(c.chapter_no, requested)

\* handleManhwaRequest: ... || details.chapters[0]; undefined on an empty list.
SelectChapter(chapters, requested) ==
    LET i == FindIndex({j \in 1..Len(chapters) : ChapterMatches(chapters[j], requested)})
    IN  IF i # 0 THEN chapters[i]
        ELSE IF Len(chapters) > 0 THEN chapters[1]
        ELSE NoChapter

\* ------------------------------------------------------------------ chats
\* A JID is user@server; the server of a group chat is g.us.

Jid(user, server) == [user |-> user, server |-> server]

NoJid == Jid("", "")

U1 == Jid("u1", "s.whatsapp.net")

U2 == Jid("u2", "s.whatsapp.net")

G1 == Jid("g1", "g.us")

JIDS == {U1, U2, G1}

\* from.endsWith("@g.us")
IsGroup(jid) == jid.server = "g.us"

\* msg.key of an inbound message: remoteJid is the chat; in a group chat
\* participant is the member who wrote, in a direct chat the chat is the writer.
Key(remoteJid, participant) == [remoteJid |-> remoteJid, participant |-> participant]

DirectKeys == {Key(U1, U1)}

ChatKeys == {Key(U1, U1), Key(G1, U1), Key(G1, U2)}

\* ------------------------------------------------------------------ text
\* A text is a sequence of tokens: "/stream" is the command as written in
\* the source, "/STREAM" the same letters in another case, " " is white
\* space, anything else is a word.  Tokens follow each other with nothing in
\* between, so <<"/stream", "hi">> is the text "/streamhi".

Tokens == {"/stream", "/STREAM", " ", "hi"}

TextsOf(n) == UNION {[1..k -> Tokens] : k \in 0..n}

Texts == TextsOf(MaxText)

ShortTexts == TextsOf(MaxShortText)

DirectTexts == TextsOf(MaxDirectText)

RECURSIVE TrimStart(_)
TrimStart(t) == IF t # <<>> /\ Head(t) = " " THEN TrimStart(Tail(t)) ELSE t

RECURSIVE TrimEnd(_)
TrimEnd(t) ==
    IF t # <<>> /\ t[Len(t)] = " " THEN TrimEnd(SubSeq(t, 1, Len(t) - 1)) ELSE t

\* String.prototype.trim
Trim(t) == TrimEnd(TrimStart(t))

\* A prefix test that is sensitive to letter case.
StartsWithCommandExactCase(t) == t # <<>> /\ Head(t) = "/stream"

\* text.toLowerCase().startsWith("/stream")
StartsWithCommand(t) == t # <<>> /\ Head(t) \in {"/stream", "/STREAM"}

\* text.replace(/^\/stream/i, "")
RemoveCommand(t) == IF StartsWithCommand(t) THEN Tail(t) ELSE t

\* An inbound messages.upsert event: its type, whether messages[0].message
\* is set, key.fromMe, the key and the text extracted from the message.
Events(keys, texts) ==
    [type : {"notify", "append"}, hasMessage : BOOLEAN, fromMe : BOOLEAN,
     key : keys, text : texts]

\* messages.upsert handler: the early returns in front of handleMessage.
Dispatches(ev) ==
    /\ ev.type = "notify"
    /\ ev.hasMessage
    /\ ~ev.fromMe
    /\ ev.text # <<>>
    /\ IsGroup(ev.key.remoteJid) => StartsWithCommand(Trim(ev.text))

\* messages.upsert handler: the text handed to handleMessage.
DispatchText(ev) ==
    IF IsGroup(ev.key.remoteJid)
    THEN Trim(RemoveCommand(Trim(ev.text)))
    ELSE Trim(ev.text)

\* -------------------------------------------------------------- pipelines
\* What one handleMessage call has issued, in order: sendMessage calls
\* (send: a new message, edit: a message with an edit key), remote HTTP
\* calls, the retry delay, a routed handler run as a whole, and a rejected
\* sendMessage.

Send(what) == [op |-> "send", what |-> what]

Edit(what) == [op |-> "edit", what |-> what]

Call(what) == [op |-> "call", what |-> what]

Delay == [op |-> "delay", what |-> "2000"]

Handler(what) == [op |-> "handler", what |-> what]

Rejected == [op |-> "throw", what |-> "sendMessage"]

\* A remote request: it throws (no connection, a timeout, an HTTP error
\* status), or it delivers data.
Responses(datas) == {[throws |-> TRUE]} \cup [throws : {FALSE}, data : datas]

\* What a function hands to its caller: a value, or the error it lets
\* through.
Returns(value) == [thrown |-> FALSE, value |-> value]

Thrown == [thrown |-> TRUE]

\* The request whose error was caught and logged by the function that made
\* it during the step just taken, and how much the pipeline had issued by
\* then.
NoneCaught == [what |-> "none", at |-> 0]

\* The note of a caught error does not outlive the step that follows.
Forget(caught, trace) == IF caught.at = Len(trace) THEN caught ELSE NoneCaught

LogError(r, response, what) ==
    IF response.throws THEN [r EXCEPT !.caught = [what |-> what, at |-> Len(r.trace)]]
    ELSE r

\* askAI: the text of the first candidate, or "" (the empty sequence),
\* also from the catch.
AskAI(response) ==
    IF response.throws THEN Returns(<<>>) ELSE Returns(response.data)

\* let qrCodeDataURL = null; a data URL is the sequence of the one number
\* of the QR code it shows.
null == <<>>

\* The WhatsApp session before startBot has made a socket.
NoSession == [state |-> "none", events |-> 0, qrs |-> 0, converting |-> {}]

Msgs == 1..MaxMsgs

NoIntent == [kind |-> "none", episode |-> Num(0), subtitle |-> FALSE, subtitleLang |-> ""]

NoAnime == [id |-> Str(<<>>), poster |-> FALSE]

\* No caption built yet.
NoCaption == [notice |-> "", title |-> "", number |-> Num(0),
              player |-> [page |-> "", episode_id |-> 0], image |-> FALSE]

\* Nothing classified yet.
NoDetected == [how |-> "none", type |-> ""]

\* A message slot no event has used yet.
Idle ==
    [pc |-> "idle", userId |-> NoJid, participant |-> NoJid, intent |-> NoIntent,
     anime |-> NoAnime, episode |-> NoEpisode, notReleasedMessage |-> "",
     attempt |-> 0, outcomes |-> <<>>, stream |-> "none", how |-> "",
     caption |-> NoCaption, caught |-> NoneCaught, subs |-> <<>>,
     detected |-> NoDetected, reply |-> "none", trace |-> <<>>]

\* Between userLocks.set and userLocks.delete of one handleMessage call.
InFlight(r) == r.pc \notin {"idle", "ignored", "dropped", "done", "returned"}

\* Events are numbered in the order they arrive.
IsNext(m) == p[m].pc = "idle" /\ \A k \in Msgs : k < m => p[k].pc # "idle"

\* --------------------------------------------------------------- the lock

\* A guard that never finds a lock.
LockHeldNever(locks, userId) == FALSE

\* userLocks.get(userId)
LockHeld(locks, userId) == locks[userId]

\* userLocks.set(userId, true)
Acquire(locks, userId) == [locks EXCEPT ![userId] = TRUE]

\* A release that is skipped when the catch block itself throws.
FinallyBlockUnlessThrown(locks, userId, how) ==
    IF how = "threw" THEN locks ELSE [locks EXCEPT ![userId] = FALSE]

\* finally { userLocks.delete(userId) }, whatever way the try block was left.
FinallyBlock(locks, userId, how) == [locks EXCEPT ![userId] = FALSE]

\* handleMessage is left: the finally block runs and the promise settles.
\* The locals of the call are gone; the chat and the way it ended are kept.
Settle(m, r, locks, how) ==
    /\ userLocks' = FinallyBlock(locks, r.userId, how)
    /\ p' = [p EXCEPT ![m] = [Idle EXCEPT !.pc = "done", !.userId = r.userId, !.how = how]]

\* handleMessage is suspended on its next await.
Suspend(m, r) ==
    /\ p' = [p EXCEPT ![m] = r]
    /\ UNCHANGED userLocks

Emit(r, pc, event) ==
    [r EXCEPT !.pc = pc, !.trace = Append(@, event), !.caught = Forget(@, r.trace)]

\* catch (err) of handleMessage: the generic failure message is sent.
MainCatch(m, r) ==
    Suspend(m, Emit([r EXCEPT !.trace = Append(@, Rejected)], "hm_catch", Send("wrong")))

\* ---------------------------------------------------- messages.upsert
\* The handler up to the first await of handleMessage: the event filter,
\* the in-flight guard, userLocks.set, the empty-text return and the
\* "Thinking" message.

\* A guard placed inside the try block: the return runs the finally block.
SkipThroughFinally(m, r) ==
    /\ userLocks' = FinallyBlock(userLocks, r.userId, "skipped")
    /\ p' = [p EXCEPT ![m] = [r EXCEPT !.pc = "dropped"]]

\* if (userLocks.get(userId)) return, in front of the try block.
Skip(m, r) == Suspend(m, [r EXCEPT !.pc = "dropped"])

Upsert(m, event) ==
    LET r == [Idle EXCEPT !.userId = event.key.remoteJid,
                          !.participant = event.key.participant]
    IN  IF ~Dispatches(event)
        THEN Suspend(m, [Idle EXCEPT !.pc = "ignored"])
        ELSE IF LockHeld(userLocks, r.userId)
        THEN Skip(m, r)
        ELSE IF DispatchText(event) = <<>>
        THEN Settle(m, r, Acquire(userLocks, r.userId), "empty")
        ELSE /\ userLocks' = Acquire(userLocks, r.userId)
             /\ p' = [p EXCEPT ![m] = Emit(r, "thinking", Send("thinking"))]

\* One inbound event, any event.
MessagesUpsert(m, keys, texts) ==
    /\ IsNext(m)
    /\ \E event \in Events(keys, texts) : Upsert(m, event)
    /\ UNCHANGED <<catalog, sel, inbound, mw, sub, qrCodeDataURL, session>>

\* await handleMessage(...) of the messages.upsert handler returns.
UpsertReturns(m) ==
    /\ p[m].pc = "done"
    /\ p' = [p EXCEPT ![m] = [Idle EXCEPT !.pc = "returned"]]
    /\ UNCHANGED <<userLocks, catalog, sel, inbound, mw, sub, qrCodeDataURL, session>>

\* ------------------------------------------------------- handleMessage

\* The "Thinking" message settles; detectMessageType asks the AI.
ThinkingSent(m) ==
    /\ p[m].pc = "thinking"
    /\ \E ok \in BOOLEAN :
        IF ok THEN Suspend(m, Emit(p[m], "detect", Call("ai")))
        ELSE MainCatch(m, p[m])
    /\ UNCHANGED <<catalog, sel, inbound, mw, sub, qrCodeDataURL, session>>

\* detectMessageType: any failure of the classifier is the type "unknown".
MessageTypes == {"anime", "manhwa", "casual", "unknown"}

\* handleGeneralRequest(text, from, thinkingKey)
CallGeneral(r) == Emit(r, "general", Handler("general"))

\* handleManhwaRequest(text, from, sock)
CallManhwa(r) == Emit(r, "manhwa", Handler("manhwa"))

\* handleGeneralRequest up to its first await: generalReply asks the AI.
CallGeneralSteps(r) == Emit(r, "gen_ai", Call("reply"))

\* What the AI answers to the classifier prompt: the empty string, a text
\* without braces, braces that JSON.parse rejects (here cut off after the
\* type), or a JSON object with a type or without one ("").
ClassifierReplies ==
    {<<>>, <<[json |-> "absent", type |-> ""]>>,
     <<[json |-> "malformed", type |-> "anime"]>>}
    \cup {<<[json |-> "object", type |-> type]>> : type \in MessageTypes \cup {""}}

\* A classifier that reads the type out of text JSON.parse rejects.
TypeOfUnparsed(reply) ==
    IF reply.thrown \/ reply.value = <<>> \/ reply.value[1].json = "absent"
    THEN "unknown" ELSE reply.value[1].type

\* detectMessageType: the type of the JSON in the reply; "unknown" from
\* the catch, when askAI threw, the reply holds no JSON or JSON.parse
\* throws.
TypeOf(reply) ==
    IF reply.thrown \/ reply.value = <<>> \/ reply.value[1].json # "object"
    THEN "unknown" ELSE reply.value[1].type

\* What came back from the classifier request, kept by the step-by-step
\* specifications.
Detected(response) ==
    IF response.throws THEN [how |-> "request", type |-> ""]
    ELSE IF response.data = <<>> THEN [how |-> "empty", type |-> ""]
    ELSE [how |-> response.data[1].json, type |-> response.data[1].type]

\* detectMessageType returns and handleMessage routes on type.type.
DetectMessageType(m, whole) ==
    /\ p[m].pc = "detect"
    /\ \E response \in Responses(ClassifierReplies) :
        LET type == TypeOf(AskAI(response))
            l == LogError(p[m], response, "detect")
            r == IF whole THEN l ELSE [l EXCEPT !.detected = Detected(response)]
        IN  IF type = "anime" THEN Suspend(m, Emit(r, "intent", Call("ai")))
            ELSE IF type = "manhwa" THEN Suspend(m, Emit(r, "manhwa_edit", Edit("loadingManhwa")))
            ELSE Suspend(m, IF whole THEN CallGeneral(r) ELSE CallGeneralSteps(r))
    /\ UNCHANGED <<catalog, sel, inbound, mw, sub, qrCodeDataURL, session>>

\* parseIntent returns null, {notFound: true} or an intent; subtitleLang
\* is "" when the reply names no language.
Intents ==
    {[kind |-> "null", episode |-> Num(0), subtitle |-> FALSE, subtitleLang |-> ""],
     [kind |-> "notFound", episode |-> Num(0), subtitle |-> FALSE, subtitleLang |-> ""]}
    \cup [kind : {"found"}, episode : {Num(2), Num(9)}, subtitle : {FALSE},
          subtitleLang : {""}]
    \cup [kind : {"found"}, episode : {Num(2), Num(9)}, subtitle : {TRUE},
          subtitleLang : {"", "arabic"}]

\* The intents that ask for no subtitle: all that the specifications which
\* run handleAnimeRequest as a whole need, since handleMessage reads
\* nothing of an intent but whether it is null or notFound.
PlainIntents == {intent \in Intents : ~intent.subtitle}

\* A test that lets a notFound intent through.
NeedsClarificationNullOnly(intent) == intent.kind = "null"

\* !intent || intent.notFound
NeedsClarification(intent) == intent.kind \in {"null", "notFound"}

\* handleAnimeRequest run as a whole.
CallAnimeWhole(r) == Emit(r, "anime", Handler("anime"))

\* handleAnimeRequest up to its first await: the placeholder is edited.
CallAnimeSteps(r) == Emit(r, "an_finding", Edit("finding"))

\* The catch of parseIntent: what the regular expressions make of the
\* text, an intent when it names a title and an episode, else null.
Fallbacks ==
    {[kind |-> "null", episode |-> Num(0), subtitle |-> FALSE, subtitleLang |-> ""],
     [kind |-> "found", episode |-> Num(2), subtitle |-> FALSE, subtitleLang |-> ""]}

\* parseIntent: the JSON of the reply, or the fallback from the catch when
\* the reply holds no JSON or askAI threw.
IntentOf(reply, fallback) ==
    IF reply.thrown \/ reply.value = <<>> THEN fallback ELSE reply.value[1]

\* parseIntent returns: the clarification, or handleAnimeRequest.
ParseIntent(m, whole) ==
    /\ p[m].pc = "intent"
    /\ \E response \in Responses({<<intent>> : intent \in IF whole THEN PlainIntents
                                                            ELSE Intents}) :
       \E fallback \in IF response.throws THEN Fallbacks ELSE {NoIntent} :
        LET intent == IntentOf(AskAI(response), fallback)
            r == [LogError(p[m], response, "intent") EXCEPT !.intent = intent]
        IN  IF NeedsClarification(intent)
            THEN Suspend(m, Emit(r, "clarify", Edit("notDetected")))
            ELSE Suspend(m, IF whole THEN CallAnimeWhole(r) ELSE CallAnimeSteps(r))
    /\ UNCHANGED <<catalog, sel, inbound, mw, sub, qrCodeDataURL, session>>

\* The "Could not detect anime" edit settles.
ClarifySent(m) ==
    /\ p[m].pc = "clarify"
    /\ \E ok \in BOOLEAN :
        IF ok THEN Settle(m, p[m], userLocks, "notFound")
        ELSE MainCatch(m, p[m])
    /\ UNCHANGED <<catalog, sel, inbound, mw, sub, qrCodeDataURL, session>>

\* The "Loading manhwa" edit settles.
ManhwaLoadingSent(m) ==
    /\ p[m].pc = "manhwa_edit"
    /\ \E ok \in BOOLEAN :
        IF ok THEN Suspend(m, CallManhwa(p[m]))
        ELSE MainCatch(m, p[m])
    /\ UNCHANGED <<catalog, sel, inbound, mw, sub, qrCodeDataURL, session>>

\* A routed handler settles. Each has its own try/catch around all of its
\* body: it returns, or returns after its catch sent its failure message,
\* or throws when the sendMessage of that catch is rejected.
RoutedHandlerSettles(m) ==
    /\ p[m].pc \in {"anime", "manhwa", "general"}
    /\ \E outcome \in {"returns", "caught", "throws"} :
        IF outcome = "returns" THEN Settle(m, p[m], userLocks, "normal")
        ELSE IF outcome = "caught" THEN Settle(m, p[m], userLocks, "handlerCaught")
        ELSE MainCatch(m, p[m])
    /\ UNCHANGED <<catalog, sel, inbound, mw, sub, qrCodeDataURL, session>>

\* The "Something went wrong" message of the catch block settles; when it
\* is rejected the error leaves handleMessage.
MainCatchSent(m) ==
    /\ p[m].pc = "hm_catch"
    /\ \E ok \in BOOLEAN :
        IF ok THEN Settle(m, p[m], userLocks, "caught")
        ELSE Settle(m, p[m], userLocks, "threw")
    /\ UNCHANGED <<catalog, sel, inbound, mw, sub, qrCodeDataURL, session>>

\* ------------------------------------------------------- SpecDispatch

NoSel == [op |-> "none", requested |-> Num(0), episode |-> NoEpisode,
          notReleasedMessage |-> "", chapter |-> NoChapter,
          reply |-> <<>>, best |-> [id |-> Str(<<>>), poster |-> FALSE]]

NoCatalog == [results |-> <<>>, episodes |-> <<>>, chapters |-> <<>>]

\* No inbound event singled out, no handleManhwaRequest call and no
\* generateSubtitle call under way.
NoEvent == [state |-> "none"]

NoManhwaCall == [pc |-> "none"]

NoSubtitleCall == [pc |-> "none"]

InitDispatch ==
    /\ userLocks = [j \in JIDS |-> FALSE]
    /\ p = [m \in Msgs |-> Idle]
    /\ catalog = NoCatalog
    /\ sel = NoSel
    /\ inbound = NoEvent
    /\ mw = NoManhwaCall
    /\ qrCodeDataURL = null
    /\ session = NoSession
    /\ sub = NoSubtitleCall

NextDispatch ==
    \E m \in Msgs :
        \/ MessagesUpsert(m, ChatKeys, ShortTexts)
        \/ ThinkingSent(m)
        \/ DetectMessageType(m, TRUE)
        \/ ParseIntent(m, TRUE)
        \/ ClarifySent(m)
        \/ ManhwaLoadingSent(m)
        \/ RoutedHandlerSettles(m)
        \/ MainCatchSent(m)
        \/ UpsertReturns(m)

SpecDispatch == InitDispatch /\ [][NextDispatch]_vars

\* --------------------------------------------------- handleAnimeRequest
\* Step by step, as Spec runs it.

\* catch (err) of handleAnimeRequest: "Failed to load episode" is sent.
AnimeCatch(m, r) == Suspend(m, Emit(r, "an_catch", Send("failedToLoad")))

\* A rejected sendMessage inside the try block of handleAnimeRequest.
AnimeSendRejected(m, r) == AnimeCatch(m, [r EXCEPT !.trace = Append(@, Rejected)])

\* The "Finding your episode" edit settles; searchAnime is called.
FindingSent(m) ==
    /\ p[m].pc = "an_finding"
    /\ \E ok \in BOOLEAN :
        IF ok THEN Suspend(m, Emit(p[m], "an_search", Call("search")))
        ELSE AnimeSendRejected(m, p[m])
    /\ UNCHANGED <<catalog, sel, inbound, mw, sub, qrCodeDataURL, session>>

\* searchAnime: data.results || [], and [] from the catch.
SearchAnimeReturns(response) ==
    IF response.throws THEN Returns(<<>>) ELSE Returns(response.data)

\* searchAnime returns; "Anime not found", or chooseBestAnime asks the AI.
SearchAnime(m) ==
    /\ p[m].pc = "an_search"
    /\ \E response \in Responses({<<>>, catalog.results}) :
        LET results == SearchAnimeReturns(response)
            r == LogError(p[m], response, "search")
        IN  IF results.thrown THEN AnimeCatch(m, r)
            ELSE IF results.value = <<>>
            THEN Suspend(m, Emit(r, "an_last", Send("animeNotFound")))
            ELSE Suspend(m, Emit(r, "an_choose", Call("ai")))
    /\ UNCHANGED <<catalog, sel, inbound, mw, sub, qrCodeDataURL, session>>

\* What the AI answers to chooseBestAnime, reduced to res.match(/\d+/)?.[0]:
\* the digits of an id, or nothing (also when askAI failed).
AIReplies == {<<>>, <<1>>, <<2>>, <<7>>}

\* chooseBestAnime: results.find(a => a.id === id) || results[0]
BestAnime(results, reply) ==
    LET i == FindIndex({j \in 1..Len(results) : StrictEquals(results[j].id, Str(reply))})
    IN  IF reply # <<>> /\ i # 0 THEN results[i] ELSE results[1]

\* chooseBestManhwa: res.match(/[a-z0-9\-]+/)?.[0], then
\* results.find(r => r.id === id) || results[0]; results[0] also from the catch.
BestManhwa(results, reply) ==
    LET i == FindIndex({j \in 1..Len(results) : StrictEquals(results[j].id, Str(reply))})
    IN  IF i # 0 THEN results[i] ELSE results[1]

\* chooseBestAnime returns; getEpisodes(anime.id) is called.
ChooseBestAnime(m) ==
    /\ p[m].pc = "an_choose"
    /\ \E response \in Responses(AIReplies) :
        LET reply == AskAI(response)
            best == IF reply.thrown THEN catalog.results[1]
                    ELSE BestAnime(catalog.results, reply.value)
        IN  Suspend(m, Emit([LogError(p[m], response, "choose") EXCEPT !.anime = best],
                            "an_episodes", Call("episodes")))
    /\ UNCHANGED <<catalog, sel, inbound, mw, sub, qrCodeDataURL, session>>

\* generateStream: const maxRetries = 3
maxRetries == 3

\* A loop that stops one attempt early.
LoopContinuesBelow(attempt) == attempt < maxRetries

\* for (...; attempt <= maxRetries; ...)
LoopContinues(attempt) == attempt <= maxRetries

\* A delay after every failed attempt, the last one too.
ShouldDelayAlways(attempt) == TRUE

\* if (attempt < maxRetries) await delay(2000)
ShouldDelay(attempt) == attempt < maxRetries

\* generateStream: player: `.../generate/player/?episode_id=${episodeId}`
Player(episodeId) == [page |-> "generate/player", episode_id |-> episodeId]

\* A card that never carries the poster.
HasPosterNever(anime) == FALSE

\* if (anime.poster)
HasPoster(anime) == anime.poster

\* const caption = `${notReleasedMessage}... ${anime.title} ... Episode
\* ${episode.number} ... ${stream.player}`, and whether it is the caption of
\* the poster image or a text of its own.
Caption(r) ==
    [notice |-> r.notReleasedMessage, title |-> r.anime.title,
     number |-> r.episode.number, player |-> Player(r.episode.id),
     image |-> HasPoster(r.anime)]

\* The episode card is sent.
SendCard(r) ==
    Emit([r EXCEPT !.caption = Caption(r)], "an_card",
         IF HasPoster(r.anime) THEN Send("cardImage") ELSE Send("cardText"))

\* A handler that sends the failure message and goes on to the card.
AfterGenerateStreamFallsThrough(r, stream) ==
    LET q == IF stream = "null"
             THEN [r EXCEPT !.stream = stream, !.trace = Append(@, Send("noStream"))]
             ELSE [r EXCEPT !.stream = stream]
    IN  SendCard(q)

\* handleAnimeRequest after `const stream = await generateStream(episode.id)`:
\* the failure message and return, or the episode card.
AfterGenerateStream(r, stream) ==
    IF stream = "null"
    THEN Emit([r EXCEPT !.stream = stream], "an_last", Send("noStream"))
    ELSE SendCard([r EXCEPT !.stream = stream])

\* generateStream at the head of its loop with the attempt number of r:
\* the next request, or `return null` after the loop.
StreamLoop(r) ==
    IF LoopContinues(r.attempt)
    THEN Emit(r, "gs_call", Call("stream"))
    ELSE AfterGenerateStream(r, "null")

\* getEpisodes: data.episodes || [], and [] from the catch.
GetEpisodesReturns(response) ==
    IF response.throws THEN Returns(<<>>) ELSE Returns(response.data)

\* getEpisodes returns; "Episodes unavailable", or the episode is selected
\* and generateStream starts with attempt 1.
GetEpisodes(m) ==
    /\ p[m].pc = "an_episodes"
    /\ \E response \in Responses({<<>>, catalog.episodes}) :
        LET episodes == GetEpisodesReturns(response)
            r == LogError(p[m], response, "episodes")
        IN  IF episodes.thrown THEN AnimeCatch(m, r)
            ELSE IF episodes.value = <<>>
            THEN Suspend(m, Emit(r, "an_last", Send("episodesUnavailable")))
            ELSE LET s == SelectEpisode(episodes.value, r.intent.episode)
                 IN  Suspend(m, StreamLoop([r EXCEPT
                         !.episode = s.episode,
                         !.notReleasedMessage = s.notReleasedMessage,
                         !.attempt = 1]))
    /\ UNCHANGED <<catalog, sel, inbound, mw, sub, qrCodeDataURL, session>>

\* One request of generateStream settles: success is data?.success; an
\* error, a timeout and success = false are all a failed attempt.
StreamAttempt(m) ==
    /\ p[m].pc = "gs_call"
    /\ \E success \in BOOLEAN :
        LET r == [p[m] EXCEPT !.outcomes = Append(@, success)]
        IN  IF success THEN Suspend(m, AfterGenerateStream(r, "ok"))
            ELSE IF ShouldDelay(r.attempt) THEN Suspend(m, Emit(r, "gs_delay", Delay))
            ELSE Suspend(m, StreamLoop([r EXCEPT !.attempt = @ + 1]))
    /\ UNCHANGED <<catalog, sel, inbound, mw, sub, qrCodeDataURL, session>>

\* The 2 second delay of generateStream is over: attempt++.
StreamDelay(m) ==
    /\ p[m].pc = "gs_delay"
    /\ Suspend(m, StreamLoop([p[m] EXCEPT !.attempt = @ + 1]))
    /\ UNCHANGED <<catalog, sel, inbound, mw, sub, qrCodeDataURL, session>>

\* The episode card settles; logWAUsage posts the usage record.
CardSent(m) ==
    /\ p[m].pc = "an_card"
    /\ \E ok \in BOOLEAN :
        IF ok THEN Suspend(m, Emit(p[m], "an_log", Call("log")))
        ELSE AnimeSendRejected(m, p[m])
    /\ UNCHANGED <<catalog, sel, inbound, mw, sub, qrCodeDataURL, session>>

\* A logWAUsage that lets the error of the post through.
LogWAUsageRethrows(response) ==
    IF response.throws THEN Thrown ELSE Returns("undefined")

\* logWAUsage: nothing is returned, also from the catch.
LogWAUsageReturns(response) == Returns("undefined")

\* logWAUsage returns; the subtitle logic.
UsageLogged(m) ==
    /\ p[m].pc = "an_log"
    /\ \E response \in Responses({"ok"}) :
        LET logged == LogWAUsageReturns(response)
            r == LogError(p[m], response, "log")
        IN  IF logged.thrown THEN AnimeCatch(m, r)
            ELSE IF r.intent.subtitle
            THEN Suspend(m, Emit(r, "an_subs", Call("subs")))
            ELSE Settle(m, r, userLocks, "normal")
    /\ UNCHANGED <<catalog, sel, inbound, mw, sub, qrCodeDataURL, session>>

\* String.prototype.toLowerCase on the language names of this model.
ToLowerCase(lang) ==
    IF lang \in {"English", "english"} THEN "english"
    ELSE IF lang \in {"Arabic", "arabic"} THEN "arabic"
    ELSE lang

\* const lang = intent.subtitleLang || "English"
SubtitleLang(intent) ==
    IF intent.subtitleLang = "" THEN "English" ELSE intent.subtitleLang

\* A comparison that is sensitive to letter case.
SameLanguageExactCase(a, b) == a = b

\* s.lang.toLowerCase() === lang.toLowerCase()
SameLanguage(a, b) == ToLowerCase(a) = ToLowerCase(b)

\* subs.find(s => s.lang.toLowerCase() === lang.toLowerCase()): the index
\* of the first match, 0 for undefined.
Existing(subs, lang) ==
    FindIndex({i \in 1..Len(subs) : SameLanguage(subs[i].lang, lang)})

\* What getsubs.php delivers: an array of up to two {lang} records, or a
\* payload that is no array (subs.find is no function then).
SubtitleArrays ==
    UNION {[1..n -> [lang : {"english", "Arabic"}]] : n \in 0..2}

SubtitlePayloads ==
    [array : {TRUE}, items : SubtitleArrays] \cup {[array |-> FALSE, items |-> <<>>]}

\* fetchAvailableSubtitles: data || [], and [] from the catch.
FetchAvailableSubtitlesReturns(response) ==
    IF response.throws THEN Returns([array |-> TRUE, items |-> <<>>])
    ELSE Returns(response.data)

\* fetchAvailableSubtitles returns: the subtitle is there, or
\* generateSubtitle is called, or subs.find(...) throws on the payload.
FetchAvailableSubtitles(m) ==
    /\ p[m].pc = "an_subs"
    /\ \E response \in Responses(SubtitlePayloads) :
        LET subs == FetchAvailableSubtitlesReturns(response)
            r == LogError(p[m], response, "subs")
        IN  IF subs.thrown \/ ~subs.value.array THEN AnimeCatch(m, r)
            ELSE LET q == [r EXCEPT !.subs = subs.value.items]
                 IN  IF Existing(q.subs, SubtitleLang(q.intent)) # 0
                     THEN Suspend(m, Emit(q, "an_last", Send("subtitleAvailable")))
                     ELSE Suspend(m, Emit(q, "gensub", Send("subtitleProgress")))
    /\ UNCHANGED <<catalog, sel, inbound, mw, sub, qrCodeDataURL, session>>

\* generateSubtitle settles: it returns the URL or null, or it throws when
\* its first progress message or the failure edit of its catch is rejected.
GenerateSubtitle(m) ==
    /\ p[m].pc = "gensub"
    /\ \E outcome \in {"returns", "throws"} :
        IF outcome = "returns" THEN Settle(m, p[m], userLocks, "normal")
        ELSE AnimeSendRejected(m, p[m])
    /\ UNCHANGED <<catalog, sel, inbound, mw, sub, qrCodeDataURL, session>>

\* A message after which handleAnimeRequest returns settles.
AnimeLastSent(m) ==
    /\ p[m].pc = "an_last"
    /\ \E ok \in BOOLEAN :
        IF ok THEN Settle(m, p[m], userLocks, "normal")
        ELSE AnimeSendRejected(m, p[m])
    /\ UNCHANGED <<catalog, sel, inbound, mw, sub, qrCodeDataURL, session>>

\* "Failed to load episode" settles; when it is rejected the error reaches
\* the catch of handleMessage.
AnimeCatchSent(m) ==
    /\ p[m].pc = "an_catch"
    /\ \E ok \in BOOLEAN :
        IF ok THEN Settle(m, p[m], userLocks, "handlerCaught")
        ELSE MainCatch(m, p[m])
    /\ UNCHANGED <<catalog, sel, inbound, mw, sub, qrCodeDataURL, session>>

\* ------------------------------------------------- handleGeneralRequest
\* Step by step, as Spec runs it.

\* catch (err) of handleGeneralRequest: "Failed to process your message".
GeneralCatch(m, r) == Suspend(m, Emit(r, "gen_catch", Send("failedToProcess")))

\* A generalReply that hands on the empty answer.
GeneralReplyAsIs(res) == IF res.value = <<>> THEN "replyEmpty" ELSE "replyAI"

\* generalReply: return res || "Hi! Send an anime or manhwa ..."
GeneralReply(res) == IF res.value = <<>> THEN "replyDefault" ELSE "replyAI"

\* generalReply returns; the reply is written over the placeholder.
GeneralReplied(m) ==
    /\ p[m].pc = "gen_ai"
    /\ \E response \in Responses({<<>>, <<"text">>}) :
        LET res == AskAI(response)
            r == [LogError(p[m], response, "reply") EXCEPT
                      !.reply = IF res.value = <<>> THEN "nothing" ELSE "text"]
        IN  Suspend(m, Emit(r, "gen_edit", Edit(GeneralReply(res))))
    /\ UNCHANGED <<catalog, sel, inbound, mw, sub, qrCodeDataURL, session>>

\* The reply edit settles; logWAUsage posts the usage record.
GeneralEdited(m) ==
    /\ p[m].pc = "gen_edit"
    /\ \E ok \in BOOLEAN :
        IF ok THEN Suspend(m, Emit(p[m], "gen_log", Call("log")))
        ELSE GeneralCatch(m, [p[m] EXCEPT !.trace = Append(@, Rejected)])
    /\ UNCHANGED <<catalog, sel, inbound, mw, sub, qrCodeDataURL, session>>

\* logWAUsage returns; handleGeneralRequest returns.
GeneralLogged(m) ==
    /\ p[m].pc = "gen_log"
    /\ \E response \in Responses({"ok"}) :
        LET logged == LogWAUsageReturns(response)
            r == LogError(p[m], response, "log")
        IN  IF logged.thrown THEN GeneralCatch(m, r)
            ELSE Settle(m, r, userLocks, "normal")
    /\ UNCHANGED <<catalog, sel, inbound, mw, sub, qrCodeDataURL, session>>

\* "Failed to process your message" settles; when it is rejected the error
\* reaches the catch of handleMessage.
GeneralCatchSent(m) ==
    /\ p[m].pc = "gen_catch"
    /\ \E ok \in BOOLEAN :
        IF ok THEN Settle(m, p[m], userLocks, "handlerCaught")
        ELSE MainCatch(m, p[m])
    /\ UNCHANGED <<catalog, sel, inbound, mw, sub, qrCodeDataURL, session>>

\* ------------------------------------------------------------------ Spec

\* The remote catalog: two search results (ids are JSON strings, one has a
\* poster) and two episodes, the second with its number as a string.
SpecCatalog ==
    [results |-> <<[id |-> Str(<<1>>), title |-> "A", poster |-> TRUE],
                   [id |-> Str(<<2>>), title |-> "B", poster |-> FALSE]>>,
     episodes |-> <<[id |-> 1, number |-> Num(1)],
                    [id |-> 2, number |-> Str(<<2>>)]>>,
     chapters |-> <<>>]

Init ==
    /\ userLocks = [j \in JIDS |-> FALSE]
    /\ p = [m \in Msgs |-> Idle]
    /\ catalog = SpecCatalog
    /\ sel = NoSel
    /\ inbound = NoEvent
    /\ mw = NoManhwaCall
    /\ qrCodeDataURL = null
    /\ session = NoSession
    /\ sub = NoSubtitleCall

Next ==
    \E m \in Msgs :
        \/ MessagesUpsert(m, DirectKeys, DirectTexts)
        \/ ThinkingSent(m)
        \/ DetectMessageType(m, FALSE)
        \/ ParseIntent(m, FALSE)
        \/ ClarifySent(m)
        \/ ManhwaLoadingSent(m)
        \/ RoutedHandlerSettles(m)
        \/ MainCatchSent(m)
        \/ UpsertReturns(m)
        \/ FindingSent(m)
        \/ SearchAnime(m)
        \/ ChooseBestAnime(m)
        \/ GetEpisodes(m)
        \/ StreamAttempt(m)
        \/ StreamDelay(m)
        \/ CardSent(m)
        \/ UsageLogged(m)
        \/ FetchAvailableSubtitles(m)
        \/ GenerateSubtitle(m)
        \/ AnimeLastSent(m)
        \/ AnimeCatchSent(m)
        \/ GeneralReplied(m)
        \/ GeneralEdited(m)
        \/ GeneralLogged(m)
        \/ GeneralCatchSent(m)

Spec == Init /\ [][Next]_vars

\* ------------------------------------------------------------ SpecSelect
\* The selectors applied to every catalog list up to MaxList entries.

NumberValues == {Num(1), Num(3), Str(<<2>>), Str(<<3>>), Str(<<1, 2>>)}

Requests == {Num(2), Num(3), Str(<<3>>), Num(12)}

NumLists == UNION {[1..n -> NumberValues] : n \in 0..MaxList}

\* data.episodes of episodes_proxy.php
EpisodesOf(nums) == [i \in 1..Len(nums) |-> [id |-> i, number |-> nums[i]]]

\* details.chapters of manga-details_v1.php
ChaptersOf(nums) == [i \in 1..Len(nums) |-> [url |-> i, chapter_no |-> nums[i]]]

\* data.results of anime_search.php / manga_search-v1.php
ResultsOf(nums) == [i \in 1..Len(nums) |-> [id |-> nums[i], poster |-> FALSE]]

\* The id the AI names, as the digits the regular expression extracts; no
\* digits when the reply holds none or askAI failed and returned "".
BestReplies == {<<>>, <<1>>, <<2>>, <<3>>, <<7>>, <<1, 2>>}

InitSelect ==
    /\ userLocks = [j \in JIDS |-> FALSE]
    /\ p = [m \in Msgs |-> Idle]
    /\ catalog \in {[results |-> ResultsOf(ns), episodes |-> EpisodesOf(ns),
                     chapters |-> ChaptersOf(ns)] : ns \in NumLists}
    /\ sel = NoSel
    /\ inbound = NoEvent
    /\ mw = NoManhwaCall
    /\ qrCodeDataURL = null
    /\ session = NoSession
    /\ sub = NoSubtitleCall

\* handleAnimeRequest selects the episode (after `if (!episodes.length) return`).
SelectEpisodeApplied ==
    /\ sel.op = "none"
    /\ catalog.episodes # <<>>
    /\ \E requested \in Requests :
        LET s == SelectEpisode(catalog.episodes, requested)
        IN  sel' = [NoSel EXCEPT !.op = "episode", !.requested = requested,
                                 !.episode = s.episode,
                                 !.notReleasedMessage = s.notReleasedMessage]
    /\ UNCHANGED <<userLocks, p, catalog, inbound, mw, sub, qrCodeDataURL, session>>

\* handleManhwaRequest selects the chapter.
SelectChapterApplied ==
    /\ sel.op = "none"
    /\ \E requested \in Requests :
        sel' = [NoSel EXCEPT !.op = "chapter", !.requested = requested,
                             !.chapter = SelectChapter(catalog.chapters, requested)]
    /\ UNCHANGED <<userLocks, p, catalog, inbound, mw, sub, qrCodeDataURL, session>>

\* handleAnimeRequest: chooseBestAnime(intent, results) after
\* `if (!results.length) return`.
ChooseBestAnimeApplied ==
    /\ sel.op = "none"
    /\ catalog.results # <<>>
    /\ \E reply \in BestReplies :
        sel' = [NoSel EXCEPT !.op = "bestAnime", !.reply = reply,
                             !.best = BestAnime(catalog.results, reply)]
    /\ UNCHANGED <<userLocks, p, catalog, inbound, mw, sub, qrCodeDataURL, session>>

\* handleManhwaRequest: chooseBestManhwa(intent, results) after
\* `if (!results.length) return`.
ChooseBestManhwaApplied ==
    /\ sel.op = "none"
    /\ catalog.results # <<>>
    /\ \E reply \in BestReplies :
        sel' = [NoSel EXCEPT !.op = "bestManhwa", !.reply = reply,
                             !.best = BestManhwa(catalog.results, reply)]
    /\ UNCHANGED <<userLocks, p, catalog, inbound, mw, sub, qrCodeDataURL, session>>

NextSelect ==
    \/ SelectEpisodeApplied
    \/ SelectChapterApplied
    \/ ChooseBestAnimeApplied
    \/ ChooseBestManhwaApplied

SpecSelect == InitSelect /\ [][NextSelect]_vars

\* ------------------------------------------------------------ SpecUpsert
\* One inbound event, kept next to the pipeline it starts: the
\* messages.upsert handler and handleMessage with the routed handlers as
\* one step each.

InitUpsert ==
    /\ userLocks = [j \in JIDS |-> FALSE]
    /\ p = [m \in Msgs |-> Idle]
    /\ catalog = NoCatalog
    /\ sel = NoSel
    /\ inbound \in {[state |-> "arrived", event |-> e, handed |-> <<>>] :
                        e \in Events(ChatKeys, Texts)}
    /\ mw = NoManhwaCall
    /\ qrCodeDataURL = null
    /\ session = NoSession
    /\ sub = NoSubtitleCall

\* The messages.upsert handler runs for the event; when it calls
\* handleMessage, message.conversation is the text it hands over.
UpsertOne ==
    /\ inbound.state = "arrived"
    /\ Upsert(1, inbound.event)
    /\ inbound' = [inbound EXCEPT
                       !.state = "delivered",
                       !.handed = IF p'[1].pc = "ignored" THEN <<>>
                                  ELSE DispatchText(inbound.event)]
    /\ UNCHANGED <<catalog, sel, mw, sub, qrCodeDataURL, session>>

NextUpsert ==
    \/ UpsertOne
    \/ ThinkingSent(1)
    \/ DetectMessageType(1, TRUE)
    \/ ParseIntent(1, TRUE)
    \/ ClarifySent(1)
    \/ ManhwaLoadingSent(1)
    \/ RoutedHandlerSettles(1)
    \/ MainCatchSent(1)
    \/ UpsertReturns(1)

SpecUpsert == InitUpsert /\ [][NextUpsert]_vars

\* ------------------------------------------------------------ SpecChunks
\* generateSubtitle, "Split into chunks", for every line count up to
\* MaxLines.  vttText is a non-empty string, so split gives at least one line.

\* const chunkSize = 100
chunkSize == 100

\* Math.min
Min(a, b) == IF a < b THEN a ELSE b

\* A chunk end that is not cut at the last line.
ChunkEndUnclamped(i, n) == i + chunkSize - 1

\* Math.min(i + chunkSize - 1, lines.length - 1)
ChunkEnd(i, n) == Min(i + chunkSize - 1, n - 1)

\* for (let i = 0; i < lines.length; i += chunkSize) chunks.push([i, end])
RECURSIVE ChunksFrom(_, _)
ChunksFrom(n, i) ==
    IF i < n
    THEN <<[start |-> i, end |-> ChunkEnd(i, n)]>> \o ChunksFrom(n, i + chunkSize)
    ELSE <<>>

Chunks(n) == ChunksFrom(n, 0)

InitChunks ==
    /\ userLocks = [j \in JIDS |-> FALSE]
    /\ p = [m \in Msgs |-> Idle]
    /\ catalog = NoCatalog
    /\ sel = NoSel
    /\ inbound = NoEvent
    /\ mw = NoManhwaCall
    /\ qrCodeDataURL = null
    /\ session = NoSession
    /\ sub \in {[pc |-> "lines", n |-> n, chunks |-> <<>>] : n \in 1..MaxLines}

SplitIntoChunks ==
    /\ sub.pc = "lines"
    /\ sub' = [sub EXCEPT !.pc = "chunks", !.chunks = Chunks(sub.n)]
    /\ UNCHANGED <<userLocks, p, catalog, sel, inbound, mw, qrCodeDataURL, session>>

NextChunks == SplitIntoChunks

SpecChunks == InitChunks /\ [][NextChunks]_vars

\* ---------------------------------------------------------- SpecSubtitle
\* One generateSubtitle call, step by step.  Chunk indices are 1-based here
\* (0-based in the source).  A text is a sequence of tokens: the translation
\* of chunk i is the one token i, the empty string has no token, and the
\* newline that join puts between two results is the token 0.

\* Line counts that give one full, one short, two and three chunks.
SubtitleLines == {1, chunkSize, chunkSize + 1, 2 * chunkSize + 1}

\* new Array(chunks.length): every element is a hole.
Hole == [set |-> FALSE, text |-> <<>>]

\* A chunk whose failure leaves the translation in place.
ChunkResultNeverEmpty(i, ok) == [set |-> TRUE, text |-> <<i>>]

\* results[index] = translated.trim() in the try, "" in the catch.
ChunkResult(i, ok) == [set |-> TRUE, text |-> IF ok THEN <<i>> ELSE <<>>]

\* A result stored at the position of its completion.
StoreResultByCompletion(results, index, completed, value) ==
    [results EXCEPT ![completed + 1] = value]

\* results[index] = ...
StoreResult(results, index, completed, value) ==
    [results EXCEPT ![index] = value]

\* results.join("\n"): a hole joins as the empty string.
RECURSIVE JoinFrom(_, _)
JoinFrom(results, i) ==
    IF i > Len(results) THEN <<>>
    ELSE (IF i > 1 THEN <<0>> ELSE <<>>) \o results[i].text \o JoinFrom(results, i + 1)

Join(results) == JoinFrom(results, 1)

\* Promise.all that is fulfilled as soon as one chunk has settled.
PromiseAllFulfilledByOne(chunk) == \E i \in DOMAIN chunk : chunk[i] = "done"

\* Promise.all is fulfilled when every chunk callback has been fulfilled.
PromiseAllFulfilled(chunk) == \A i \in DOMAIN chunk : chunk[i] = "done"

NewSubtitleCall(n) ==
    [pc |-> "progress0", n |-> n, chunks |-> <<>>, chunk |-> <<>>,
     results |-> <<>>, completedChunks |-> 0, calls |-> <<>>, order |-> <<>>,
     save |-> "none", store |-> "none", ready |-> "none", content |-> <<>>,
     failEdits |-> 0, failEdit |-> "none", failed |-> "none", ret |-> "none",
     edits |-> <<>>, fetches |-> 0, base |-> "none", noBase |-> "none"]

InitSubtitle ==
    /\ userLocks = [j \in JIDS |-> FALSE]
    /\ p = [m \in Msgs |-> Idle]
    /\ catalog = NoCatalog
    /\ sel = NoSel
    /\ inbound = NoEvent
    /\ mw = NoManhwaCall
    /\ qrCodeDataURL = null
    /\ session = NoSession
    /\ sub \in {NewSubtitleCall(n) : n \in SubtitleLines}

\* The edits of the progress message (edit: progressKey), in the order
\* they are issued.
PercentEdit(percent) == [text |-> "percent", percent |-> percent]

ReadyEdit == [text |-> "ready", percent |-> 0]

FailureEdit == [text |-> "failed", percent |-> 0]

\* A percentage of what is still to do.
PercentOfRest(completedChunks, total) == ((total - completedChunks) * 100) \div total

\* Math.floor((completedChunks / chunks.length) * 100); the quotient is a
\* double, and up to 28 chunks the result is that of the integer division.
Percent(completedChunks, total) == (completedChunks * 100) \div total

\* A catch that returns null without telling the user.
SubtitleCatchSilent(s, why) ==
    [s EXCEPT !.pc = "done", !.ret = "null", !.failed = why]

\* catch (err) of generateSubtitle: the failure edit is issued.
SubtitleCatch(s, why) ==
    [s EXCEPT !.pc = "failEdit", !.failEdits = @ + 1, !.failEdit = "issued",
              !.failed = why, !.edits = Append(@, FailureEdit)]

\* The "Generating ... 0%" message settles; it is sent in front of the try,
\* so its rejection rejects generateSubtitle.  Then the base VTT is asked for.
SubtitleProgressSent ==
    /\ sub.pc = "progress0"
    /\ \E ok \in BOOLEAN :
        sub' = IF ok THEN [sub EXCEPT !.pc = "fetch", !.fetches = @ + 1]
               ELSE [sub EXCEPT !.pc = "done", !.ret = "throws", !.failed = "send"]
    /\ UNCHANGED <<userLocks, p, catalog, sel, inbound, mw, qrCodeDataURL, session>>

\* A test that lets an empty body through to the split.
BaseIsEmptyNever(outcome) == FALSE

\* if (!vttText)
BaseIsEmpty(outcome) == outcome = "empty"

\* vttreader.php settles: an error, an empty body, or lines.  With an
\* empty body the "No base subtitle" message is sent.  With lines the
\* chunks are cut and chunks.map starts every callback, each up to its
\* axios.post.
BaseFetched ==
    /\ sub.pc = "fetch"
    /\ \E outcome \in {"throws", "empty", "lines"} :
        sub' = IF outcome = "throws"
               THEN SubtitleCatch([sub EXCEPT !.base = outcome], "fetch")
               ELSE IF BaseIsEmpty(outcome)
               THEN [sub EXCEPT !.pc = "noBase", !.base = outcome, !.noBase = "issued"]
               ELSE LET c == Chunks(sub.n)
                    IN  [sub EXCEPT !.pc = "translate",
                                    !.base = outcome,
                                    !.chunks = c,
                                    !.chunk = [i \in 1..Len(c) |-> "translating"],
                                    !.results = [i \in 1..Len(c) |-> Hole],
                                    !.calls = [i \in 1..Len(c) |-> 1]]
    /\ UNCHANGED <<userLocks, p, catalog, sel, inbound, mw, qrCodeDataURL, session>>

\* The "No base subtitle" message settles; it is awaited inside the try.
NoBaseSent ==
    /\ sub.pc = "noBase"
    /\ \E ok \in BOOLEAN :
        sub' = IF ok THEN [sub EXCEPT !.pc = "done", !.ret = "null", !.noBase = "ok"]
               ELSE SubtitleCatch([sub EXCEPT !.noBase = "rejected"], "send")
    /\ UNCHANGED <<userLocks, p, catalog, sel, inbound, mw, qrCodeDataURL, session>>

\* translate_chunk.php settles for chunk i: the result is stored, the
\* counter goes up and the progress edit is issued.  The callback runs
\* whether or not Promise.all has been rejected in the meantime.
ChunkTranslated(i) ==
    /\ sub.pc # "none"
    /\ i \in DOMAIN sub.chunk
    /\ sub.chunk[i] = "translating"
    /\ \E ok \in BOOLEAN :
        sub' = [sub EXCEPT
                   !.results = StoreResult(@, i, sub.completedChunks, ChunkResult(i, ok)),
                   !.completedChunks = @ + 1,
                   !.order = Append(@, [index |-> i, ok |-> ok]),
                   !.edits = Append(@, PercentEdit(Percent(sub.completedChunks + 1,
                                                           Len(sub.chunks)))),
                   !.chunk[i] = "editing"]
    /\ UNCHANGED <<userLocks, p, catalog, sel, inbound, mw, qrCodeDataURL, session>>

\* The progress edit of chunk i settles.  The first rejection rejects
\* Promise.all and the catch runs; when the last callback is fulfilled
\* Promise.all is fulfilled, the results are joined and the save is posted.
ChunkProgressEdited(i) ==
    /\ sub.pc # "none"
    /\ i \in DOMAIN sub.chunk
    /\ sub.chunk[i] = "editing"
    /\ \E ok \in BOOLEAN :
        LET s == [sub EXCEPT !.chunk[i] = IF ok THEN "done" ELSE "rejected"]
        IN  sub' = IF s.pc # "translate" THEN s
                   ELSE IF ~ok THEN SubtitleCatch(s, "send")
                   ELSE IF PromiseAllFulfilled(s.chunk)
                   THEN [s EXCEPT !.pc = "save", !.save = "issued",
                                  !.content = Join(s.results)]
                   ELSE s
    /\ UNCHANGED <<userLocks, p, catalog, sel, inbound, mw, qrCodeDataURL, session>>

\* save_subtitle.php settles; store_subtitle.php is posted.
SubtitleSaved ==
    /\ sub.pc = "save"
    /\ \E ok \in BOOLEAN :
        sub' = IF ok THEN [sub EXCEPT !.pc = "store", !.save = "ok", !.store = "issued"]
               ELSE SubtitleCatch([sub EXCEPT !.save = "failed"], "save")
    /\ UNCHANGED <<userLocks, p, catalog, sel, inbound, mw, qrCodeDataURL, session>>

\* store_subtitle.php settles; the "subtitle ready" edit is issued.
SubtitleStored ==
    /\ sub.pc = "store"
    /\ \E ok \in BOOLEAN :
        sub' = IF ok THEN [sub EXCEPT !.pc = "ready", !.store = "ok", !.ready = "issued",
                                      !.edits = Append(@, ReadyEdit)]
               ELSE SubtitleCatch([sub EXCEPT !.store = "failed"], "store")
    /\ UNCHANGED <<userLocks, p, catalog, sel, inbound, mw, qrCodeDataURL, session>>

\* The "subtitle ready" edit settles: return subtitleURL, or the catch.
SubtitleReadySent ==
    /\ sub.pc = "ready"
    /\ \E ok \in BOOLEAN :
        sub' = IF ok THEN [sub EXCEPT !.pc = "done", !.ready = "ok", !.ret = "url"]
               ELSE SubtitleCatch([sub EXCEPT !.ready = "failed"], "send")
    /\ UNCHANGED <<userLocks, p, catalog, sel, inbound, mw, qrCodeDataURL, session>>

\* The failure edit of the catch settles: return null, or the rejection
\* leaves generateSubtitle.
SubtitleFailEdited ==
    /\ sub.pc = "failEdit"
    /\ \E ok \in BOOLEAN :
        sub' = [sub EXCEPT !.pc = "done",
                           !.failEdit = IF ok THEN "ok" ELSE "rejected",
                           !.ret = IF ok THEN "null" ELSE "throws"]
    /\ UNCHANGED <<userLocks, p, catalog, sel, inbound, mw, qrCodeDataURL, session>>

NextSubtitle ==
    \/ SubtitleProgressSent
    \/ BaseFetched
    \/ NoBaseSent
    \/ \E i \in 1..Len(Chunks(sub.n)) : ChunkTranslated(i)
    \/ \E i \in 1..Len(Chunks(sub.n)) : ChunkProgressEdited(i)
    \/ SubtitleSaved
    \/ SubtitleStored
    \/ SubtitleReadySent
    \/ SubtitleFailEdited

SpecSubtitle == InitSubtitle /\ [][NextSubtitle]_vars

\* ------------------------------------------------------------ SpecManhwa
\* One handleManhwaRequest call, step by step, with
\* downloadImagesWithProgress and imagesToPDF inside it.  Pages are numbered
\* from 1 here (from 0 in the source).

\* parseManhwaIntent: null after a failure, notFound, or a title with the
\* requested chapter.
ManhwaIntents ==
    {[kind |-> "null", chapter |-> Num(0)], [kind |-> "notFound", chapter |-> Num(0)],
     [kind |-> "found", chapter |-> Num(3)], [kind |-> "found", chapter |-> Num(2)]}

\* details.chapters of manga-details_v1.php.
ManhwaChapterLists ==
    {ChaptersOf(ns) : ns \in {<<>>, <<Num(1), Num(3)>>, <<Num(1), Str(<<3>>)>>}}

\* What getManhwaDetails can return: null, data without a chapters array,
\* or data with chapters.
NullDetails == [kind |-> "null", chapters |-> <<>>]

ManhwaDetails ==
    {NullDetails, [kind |-> "malformed", chapters |-> <<>>]}
    \cup {[kind |-> "ok", chapters |-> chapters] : chapters \in ManhwaChapterLists}

NewManhwaCall ==
    [pc |-> "intent", intent |-> [kind |-> "none", chapter |-> Num(0)],
     results |-> "none", details |-> "none", chapters |-> <<>>,
     chapter |-> NoChapter, images |-> "none", nImg |-> 0, i |-> 0,
     primary |-> <<>>, proxy |-> <<>>, buffers |-> <<>>, downloaded |-> FALSE,
     b |-> 0, strips |-> <<>>, finalPages |-> <<>>, normalized |-> FALSE,
     pages |-> 0, j |-> 0, doc |-> <<>>, caption |-> NoChapter,
     stage |-> "none", ret |-> "none",
     caught |-> NoneCaught, trace |-> <<Call("intent")>>]

InitManhwa ==
    /\ userLocks = [j \in JIDS |-> FALSE]
    /\ p = [m \in Msgs |-> Idle]
    /\ catalog = NoCatalog
    /\ sel = NoSel
    /\ inbound = NoEvent
    /\ mw = NewManhwaCall
    /\ qrCodeDataURL = null
    /\ session = NoSession
    /\ sub = NoSubtitleCall

\* What the call has issued is appended to its trace.
ManhwaEmit(s, pc, event) ==
    [s EXCEPT !.pc = pc, !.trace = Append(@, event), !.caught = Forget(@, s.trace)]

\* `return await sock.sendMessage(from, { text: <failure of a stage> })`
ManhwaAbort(s, stage) ==
    ManhwaEmit([s EXCEPT !.stage = stage], "last", Send(stage))

\* An error other than a rejected sendMessage.
Threw(what) == [op |-> "throw", what |-> what]

\* catch (err) of handleManhwaRequest: "Unexpected error occurred" is sent.
ManhwaCatch(s, error) ==
    [s EXCEPT !.pc = "catch", !.trace = @ \o <<error, Send("unexpected")>>,
              !.caught = Forget(@, s.trace)]

\* parseManhwaIntent: the JSON of the reply; null from the catch, when the
\* reply holds no JSON or askAI threw.
ManhwaIntentOf(reply) ==
    IF reply.thrown \/ reply.value = <<>>
    THEN [kind |-> "null", chapter |-> Num(0)]
    ELSE reply.value[1]

\* parseManhwaIntent returns.
ManhwaIntentParsed ==
    /\ mw.pc = "intent"
    /\ \E response \in Responses({<<intent>> : intent \in ManhwaIntents}) :
        LET intent == ManhwaIntentOf(AskAI(response))
            s == [LogError(mw, response, "intent") EXCEPT !.intent = intent]
        IN  mw' = IF intent.kind # "found" THEN ManhwaAbort(s, "noTitle")
                  ELSE ManhwaEmit(s, "searching", Send("searching"))
    /\ UNCHANGED <<userLocks, p, catalog, sel, inbound, sub, qrCodeDataURL, session>>

\* The "Searching manhwa" message settles; searchManhwa is called.
ManhwaSearchingSent ==
    /\ mw.pc = "searching"
    /\ \E ok \in BOOLEAN :
        mw' = IF ok THEN ManhwaEmit(mw, "search", Call("search"))
              ELSE ManhwaCatch(mw, Rejected)
    /\ UNCHANGED <<userLocks, p, catalog, sel, inbound, sub, qrCodeDataURL, session>>

\* searchManhwa: data.results || [], [] without data.success and [] from
\* the catch.
SearchManhwaReturns(response) ==
    IF response.throws THEN Returns("empty") ELSE Returns(response.data)

\* searchManhwa returns; "Manhwa not found", or chooseBestManhwa asks the AI.
ManhwaSearched ==
    /\ mw.pc = "search"
    /\ \E response \in Responses({"empty", "some"}) :
        LET results == SearchManhwaReturns(response)
            s == LogError(mw, response, "search")
        IN  mw' = IF results.thrown THEN ManhwaCatch(s, Threw("searchManhwa"))
                  ELSE IF results.value = "empty"
                  THEN ManhwaAbort([s EXCEPT !.results = "empty"], "notFound")
                  ELSE ManhwaEmit([s EXCEPT !.results = "some"], "choose", Call("ai"))
    /\ UNCHANGED <<userLocks, p, catalog, sel, inbound, sub, qrCodeDataURL, session>>

\* chooseBestManhwa returns a candidate, results[0] when askAI failed;
\* getManhwaDetails is called.
ManhwaChosen ==
    /\ mw.pc = "choose"
    /\ \E response \in Responses({<<1>>}) :
        mw' = ManhwaEmit(LogError(mw, response, "choose"), "details", Call("details"))
    /\ UNCHANGED <<userLocks, p, catalog, sel, inbound, sub, qrCodeDataURL, session>>

\* A getManhwaDetails that lets the error of the request through.
GetManhwaDetailsRethrows(response) ==
    IF response.throws THEN Thrown ELSE Returns(response.data)

\* getManhwaDetails: data.data, null without data.success and null from
\* the catch.
GetManhwaDetailsReturns(response) ==
    IF response.throws THEN Returns(NullDetails) ELSE Returns(response.data)

\* getManhwaDetails returns: "Failed to load details" for null; for data
\* without a chapters array details.chapters.find throws; else the chapter
\* is selected.
ManhwaDetailsLoaded ==
    /\ mw.pc = "details"
    /\ \E response \in Responses(ManhwaDetails) :
        LET details == GetManhwaDetailsReturns(response)
            s == LogError(mw, response, "details")
        IN  IF details.thrown THEN mw' = ManhwaCatch(s, Threw("getManhwaDetails"))
            ELSE IF details.value.kind = "null"
            THEN mw' = ManhwaAbort([s EXCEPT !.details = "null"], "noDetails")
            ELSE IF details.value.kind = "malformed"
            THEN mw' = ManhwaCatch([s EXCEPT !.details = "malformed"], Threw("TypeError"))
            ELSE LET chapters == details.value.chapters
                     chapter == SelectChapter(chapters, s.intent.chapter)
                     t == [s EXCEPT !.details = "ok", !.chapters = chapters,
                                    !.chapter = chapter]
                 IN  mw' = IF chapter = NoChapter THEN ManhwaAbort(t, "noChapters")
                           ELSE ManhwaEmit(t, "loading", Send("loading"))
    /\ UNCHANGED <<userLocks, p, catalog, sel, inbound, sub, qrCodeDataURL, session>>

\* The "Loading <chapter>" message settles; getChapterImages is called.
ChapterLoadingSent ==
    /\ mw.pc = "loading"
    /\ \E ok \in BOOLEAN :
        mw' = IF ok THEN ManhwaEmit(mw, "images", Call("images"))
              ELSE ManhwaCatch(mw, Rejected)
    /\ UNCHANGED <<userLocks, p, catalog, sel, inbound, sub, qrCodeDataURL, session>>

\* The i-th of n items is through: `... ${i + 1}/${images.length}`
Progress(what, i, n) == [op |-> "send", what |-> what, i |-> i, n |-> n]

\* A progress message after every item.
ProgressDueAlways(i, n) == TRUE

\* i % 2 === 0 || i === images.length - 1, for the 0-based index i - 1
ProgressDue(i, n) == (i - 1) % 2 = 0 \/ i = n

\* A page is added for the first strip of an image only.
AddPageOfFirstStrip(doc, page) == IF page.strip = 1 THEN Append(doc, page) ELSE doc

\* doc.addPage(...); doc.image(img, 0, 0, ...)
AddPage(doc, page) == Append(doc, page)

\* imagesToPDF: the loop head for page j; past the last page the PDF is
\* returned and the document message is sent, its caption and file name
\* made from the details and the chapter.
PdfLoop(s, j) ==
    IF j <= s.pages THEN ManhwaEmit([s EXCEPT !.j = j], "metadata", Call("sharp"))
    ELSE ManhwaEmit([s EXCEPT !.caption = s.chapter], "document", Send("document"))

\* normalizeAndSplitImages: the loop head for buffer b; past the last
\* buffer finalPages is returned and imagesToPDF starts.
NormalizeLoop(s, b) ==
    IF b <= Len(s.buffers) THEN ManhwaEmit([s EXCEPT !.b = b], "normalize", Call("sharp"))
    ELSE PdfLoop([s EXCEPT !.normalized = TRUE, !.pages = Len(s.finalPages)], 1)

\* A test that never finds the download empty.
DownloadFailedNever(buffers) == FALSE

\* !imageBuffers.length
DownloadFailed(buffers) == Len(buffers) = 0

\* downloadImagesWithProgress: the loop head for page i.  Past the last
\* page the buffers are returned to handleManhwaRequest, which gives up on
\* an empty list and otherwise starts normalizeAndSplitImages.
DownloadLoop(s, i) ==
    IF i <= s.nImg
    THEN ManhwaEmit([s EXCEPT !.i = i, !.primary[i] = "issued"], "primary", Call("primary"))
    ELSE IF DownloadFailed(s.buffers)
    THEN ManhwaAbort([s EXCEPT !.downloaded = TRUE], "downloadFailed")
    ELSE NormalizeLoop([s EXCEPT !.downloaded = TRUE], 1)

\* The end of one loop body of downloadImagesWithProgress.
AfterPage(s) ==
    IF ProgressDue(s.i, s.nImg)
    THEN ManhwaEmit(s, "downloading", Progress("downloading", s.i, s.nImg))
    ELSE DownloadLoop(s, s.i + 1)

\* A buffer that is put in front of the others.
PushBufferFront(buffers, page) == <<page>> \o buffers

\* buffers.push(buffer)
PushBuffer(buffers, page) == Append(buffers, page)

\* getChapterImages: data.pages || [], [] without data.success and [] from
\* the catch; the number of page URLs stands for the list.
GetChapterImagesReturns(response) ==
    IF response.throws THEN Returns(0) ELSE Returns(response.data)

\* getChapterImages returns; "Chapter images unavailable", or the download
\* starts.
ManhwaImagesListed ==
    /\ mw.pc = "images"
    /\ \E response \in Responses(0..MaxPages) :
        LET images == GetChapterImagesReturns(response)
            n == IF images.thrown THEN 0 ELSE images.value
            s == [LogError(mw, response, "images") EXCEPT
                      !.images = IF n = 0 THEN "empty" ELSE "some",
                      !.nImg = n, !.primary = [k \in 1..n |-> "none"],
                      !.proxy = [k \in 1..n |-> "none"]]
        IN  mw' = IF images.thrown
                  THEN ManhwaCatch(LogError(mw, response, "images"), Threw("getChapterImages"))
                  ELSE IF n = 0 THEN ManhwaAbort(s, "noImages") ELSE DownloadLoop(s, 1)
    /\ UNCHANGED <<userLocks, p, catalog, sel, inbound, sub, qrCodeDataURL, session>>

\* The primary fetch of page i settles: the buffer is kept, or the image
\* proxy is asked.
PrimaryFetched ==
    /\ mw.pc = "primary"
    /\ \E ok \in BOOLEAN :
        mw' = IF ok
              THEN AfterPage([mw EXCEPT !.primary[mw.i] = "ok",
                                        !.buffers = PushBuffer(@, mw.i)])
              ELSE ManhwaEmit([mw EXCEPT !.primary[mw.i] = "failed",
                                         !.proxy[mw.i] = "issued"],
                              "proxy", Call("proxy"))
    /\ UNCHANGED <<userLocks, p, catalog, sel, inbound, sub, qrCodeDataURL, session>>

\* The proxy fetch of page i settles: the buffer is kept, or the page is
\* dropped.
ProxyFetched ==
    /\ mw.pc = "proxy"
    /\ \E ok \in BOOLEAN :
        mw' = IF ok
              THEN AfterPage([mw EXCEPT !.proxy[mw.i] = "ok",
                                        !.buffers = PushBuffer(@, mw.i)])
              ELSE AfterPage([mw EXCEPT !.proxy[mw.i] = "failed"])
    /\ UNCHANGED <<userLocks, p, catalog, sel, inbound, sub, qrCodeDataURL, session>>

\* The "Downloading pages" message settles; its rejection leaves
\* downloadImagesWithProgress and lands in the catch of the handler.
DownloadProgressSent ==
    /\ mw.pc = "downloading"
    /\ \E ok \in BOOLEAN :
        mw' = IF ok THEN DownloadLoop(mw, mw.i + 1) ELSE ManhwaCatch(mw, Rejected)
    /\ UNCHANGED <<userLocks, p, catalog, sel, inbound, sub, qrCodeDataURL, session>>

\* The pages one image yields: the image itself, or its strips from the
\* top down.
StripsOf(image, k) == [t \in 1..k |-> [image |-> image, strip |-> t]]

\* normalizeAndSplitImages, one turn of its loop: sharp resizes buffer b,
\* reads its height and cuts it when it is tall; any of these calls may
\* throw (a buffer that is no image), and nothing in the function or
\* between it and the catch of handleManhwaRequest catches that.
ImageNormalized ==
    /\ mw.pc = "normalize"
    /\ \/ mw' = ManhwaCatch(mw, Threw("normalize"))
       \/ \E k \in 1..MaxStrips :
            mw' = NormalizeLoop([mw EXCEPT
                                    !.strips = Append(@, k),
                                    !.finalPages = @ \o StripsOf(mw.buffers[mw.b], k)],
                                mw.b + 1)
    /\ UNCHANGED <<userLocks, p, catalog, sel, inbound, sub, qrCodeDataURL, session>>

\* imagesToPDF: sharp(img).metadata() settles for page j; the page is
\* added and the progress message is due or not.
PdfPageAdded ==
    /\ mw.pc = "metadata"
    /\ \E ok \in BOOLEAN :
        LET s == [mw EXCEPT !.doc = AddPage(@, mw.finalPages[mw.j])]
        IN  mw' = IF ~ok THEN ManhwaCatch(mw, Threw("metadata"))
                  ELSE IF ProgressDue(s.j, s.pages)
                  THEN ManhwaEmit(s, "generating", Progress("generating", s.j, s.pages))
                  ELSE PdfLoop(s, s.j + 1)
    /\ UNCHANGED <<userLocks, p, catalog, sel, inbound, sub, qrCodeDataURL, session>>

\* The "Generating PDF" message settles.
PdfProgressSent ==
    /\ mw.pc = "generating"
    /\ \E ok \in BOOLEAN :
        mw' = IF ok THEN PdfLoop(mw, mw.j + 1) ELSE ManhwaCatch(mw, Rejected)
    /\ UNCHANGED <<userLocks, p, catalog, sel, inbound, sub, qrCodeDataURL, session>>

\* The document message settles; "Chapter ready" is sent.
DocumentSent ==
    /\ mw.pc = "document"
    /\ \E ok \in BOOLEAN :
        mw' = IF ok THEN ManhwaEmit(mw, "last", Send("ready"))
              ELSE ManhwaCatch(mw, Rejected)
    /\ UNCHANGED <<userLocks, p, catalog, sel, inbound, sub, qrCodeDataURL, session>>

\* The last message of the try block settles: the handler returns, or
\* the catch runs.
ManhwaLastSent ==
    /\ mw.pc = "last"
    /\ \E ok \in BOOLEAN :
        mw' = IF ok THEN [mw EXCEPT !.pc = "done", !.ret = "returned"]
              ELSE ManhwaCatch(mw, Rejected)
    /\ UNCHANGED <<userLocks, p, catalog, sel, inbound, sub, qrCodeDataURL, session>>

\* The message of the catch settles: the handler returns, or the rejection
\* leaves it.
ManhwaCatchSent ==
    /\ mw.pc = "catch"
    /\ \E ok \in BOOLEAN :
        mw' = IF ok THEN [mw EXCEPT !.pc = "done", !.ret = "returned"]
              ELSE [mw EXCEPT !.pc = "done", !.ret = "throws",
                              !.trace = Append(@, Rejected)]
    /\ UNCHANGED <<userLocks, p, catalog, sel, inbound, sub, qrCodeDataURL, session>>

NextManhwa ==
    \/ ManhwaIntentParsed
    \/ ManhwaSearchingSent
    \/ ManhwaSearched
    \/ ManhwaChosen
    \/ ManhwaDetailsLoaded
    \/ ChapterLoadingSent
    \/ ManhwaImagesListed
    \/ PrimaryFetched
    \/ ProxyFetched
    \/ DownloadProgressSent
    \/ ImageNormalized
    \/ PdfPageAdded
    \/ PdfProgressSent
    \/ DocumentSent
    \/ ManhwaLastSent
    \/ ManhwaCatchSent

SpecManhwa == InitManhwa /\ [][NextManhwa]_vars

\* ---------------------------------------------------------- SpecHandlers
\* The handlers step by step: the pipelines of Spec with handleAnimeRequest,
\* or one call of handleManhwaRequest once every message has been handled.

InitHandlers ==
    \/ Init
    \/ /\ userLocks = [j \in JIDS |-> FALSE]
       /\ p = [m \in Msgs |-> [Idle EXCEPT !.pc = "returned"]]
       /\ catalog = SpecCatalog
       /\ sel = NoSel
       /\ inbound = NoEvent
       /\ mw = NewManhwaCall
       /\ qrCodeDataURL = null
       /\ session = NoSession
       /\ sub = NoSubtitleCall

NextHandlers == Next \/ NextManhwa

SpecHandlers == InitHandlers /\ [][NextHandlers]_vars

\* ------------------------------------------------------------ SpecStrips
\* normalizeAndSplitImages for one buffer, from the moment sharp has
\* delivered the resized image and its metadata: one page, or the slicing
\* loop, one extract per step.  The loop is the only thing running, so it
\* is scheduled until it ends.

\* maxHeight = 2000
maxHeight == 2000

\* A strip that takes all that is left of the image.
StripHeightAllLeft(top, height) == height - top

\* Math.min(maxHeight, metadata.height - top)
StripHeight(top, height) == Min(maxHeight, height - top)

InitStrips ==
    /\ userLocks = [j \in JIDS |-> FALSE]
    /\ p = [m \in Msgs |-> Idle]
    /\ catalog = NoCatalog
    /\ sel = NoSel
    /\ inbound = NoEvent
    /\ mw \in {[pc |-> "image", height |-> h, top |-> 0, finalPages |-> <<>>] :
                   h \in 1..MaxImageHeight}
    /\ qrCodeDataURL = null
    /\ session = NoSession
    /\ sub = NoSubtitleCall

\* if (metadata.height <= maxHeight) finalPages.push(img); else top = 0
\* and the while loop is entered.
ImageMeasured ==
    /\ mw.pc = "image"
    /\ mw' = IF mw.height <= maxHeight
              THEN [mw EXCEPT !.pc = "pushed",
                              !.finalPages = <<[top |-> 0, height |-> mw.height]>>]
              ELSE [mw EXCEPT !.pc = "slicing"]
    /\ UNCHANGED <<userLocks, p, catalog, sel, inbound, sub, qrCodeDataURL, session>>

\* One turn of while (top < metadata.height): the strip is extracted and
\* pushed, top moves down by its height.
StripExtracted ==
    /\ mw.pc = "slicing"
    /\ IF mw.top < mw.height
       THEN LET chunkHeight == StripHeight(mw.top, mw.height)
            IN  mw' = [mw EXCEPT
                          !.finalPages = Append(@, [top |-> mw.top, height |-> chunkHeight]),
                          !.top = @ + chunkHeight]
       ELSE mw' = [mw EXCEPT !.pc = "pushed"]
    /\ UNCHANGED <<userLocks, p, catalog, sel, inbound, sub, qrCodeDataURL, session>>

NextStrips == ImageMeasured \/ StripExtracted

SpecStrips == InitStrips /\ [][NextStrips]_vars /\ WF_vars(NextStrips)

\* -------------------------------------------------------------- SpecLive
\* The pipelines of Spec, or one generateSubtitle call once the messages
\* are handled, with every awaited operation settling in the end: the
\* HTTP requests of axios and the sendMessage calls return or throw, the
\* delay timer fires.  Nothing obliges WhatsApp to deliver a message.

InitLive ==
    \/ Init
    \/ /\ userLocks = [j \in JIDS |-> FALSE]
       /\ p = [m \in Msgs |-> [Idle EXCEPT !.pc = "returned"]]
       /\ catalog = SpecCatalog
       /\ sel = NoSel
       /\ inbound = NoEvent
       /\ mw = NoManhwaCall
       /\ sub \in {NewSubtitleCall(n) : n \in SubtitleLines}
       /\ qrCodeDataURL = null
       /\ session = NoSession

\* An awaited operation of a pipeline settles and its continuation runs.
Settles ==
    \E m \in Msgs :
        \/ ThinkingSent(m)
        \/ DetectMessageType(m, FALSE)
        \/ ParseIntent(m, FALSE)
        \/ ClarifySent(m)
        \/ ManhwaLoadingSent(m)
        \/ RoutedHandlerSettles(m)
        \/ MainCatchSent(m)
        \/ UpsertReturns(m)
        \/ FindingSent(m)
        \/ SearchAnime(m)
        \/ ChooseBestAnime(m)
        \/ GetEpisodes(m)
        \/ StreamAttempt(m)
        \/ StreamDelay(m)
        \/ CardSent(m)
        \/ UsageLogged(m)
        \/ FetchAvailableSubtitles(m)
        \/ GenerateSubtitle(m)
        \/ AnimeLastSent(m)
        \/ AnimeCatchSent(m)
        \/ GeneralReplied(m)
        \/ GeneralEdited(m)
        \/ GeneralLogged(m)
        \/ GeneralCatchSent(m)

\* An awaited operation of the generateSubtitle call settles.
SubtitleSettles == sub.pc # "none" /\ NextSubtitle

NextLive ==
    \/ \E m \in Msgs : MessagesUpsert(m, DirectKeys, DirectTexts)
    \/ Settles
    \/ SubtitleSettles

SpecLive ==
    InitLive /\ [][NextLive]_vars /\ WF_vars(Settles) /\ WF_vars(SubtitleSettles)

\* ------------------------------------------------------------- SpecIndex
\* src/index.js.  Its functions have the bodies of part_000, but
\* handleAnimeRequest is declared at module level (615), in front of
\* startBot (716), and `const sock` is a local of startBot (720).

\* Whether the name sock resolves inside handleAnimeRequest of index.js.
SockInScope == FALSE

\* handleAnimeRequest of index.js is called.  With sock in scope it is the
\* handler of part_000.  Without, the first statement of the try block
\* throws a ReferenceError, the sendMessage of the handler's catch throws
\* the next one, and that one reaches the catch of handleMessage, where
\* sock is in scope.
IndexHandleAnimeRequest(m, r) ==
    IF SockInScope THEN Suspend(m, CallAnimeSteps(r))
    ELSE Suspend(m, Emit([r EXCEPT !.trace = @ \o <<Threw("ReferenceError"),
                                                    Threw("ReferenceError")>>],
                         "hm_catch", Send("wrong")))

\* parseIntent of index.js returns: the clarification, or
\* handleAnimeRequest.
IndexParseIntent(m) ==
    /\ p[m].pc = "intent"
    /\ \E response \in Responses({<<intent>> : intent \in Intents}) :
       \E fallback \in IF response.throws THEN Fallbacks ELSE {NoIntent} :
        LET intent == IntentOf(AskAI(response), fallback)
            r == [LogError(p[m], response, "intent") EXCEPT !.intent = intent]
        IN  IF NeedsClarification(intent)
            THEN Suspend(m, Emit(r, "clarify", Edit("notDetected")))
            ELSE IndexHandleAnimeRequest(m, r)
    /\ UNCHANGED <<catalog, sel, inbound, mw, sub, qrCodeDataURL, session>>

NextIndex ==
    \E m \in Msgs :
        \/ MessagesUpsert(m, DirectKeys, DirectTexts)
        \/ ThinkingSent(m)
        \/ DetectMessageType(m, FALSE)
        \/ IndexParseIntent(m)
        \/ ClarifySent(m)
        \/ ManhwaLoadingSent(m)
        \/ RoutedHandlerSettles(m)
        \/ MainCatchSent(m)
        \/ UpsertReturns(m)
        \/ GeneralReplied(m)
        \/ GeneralEdited(m)
        \/ GeneralLogged(m)
        \/ GeneralCatchSent(m)

SpecIndex == Init /\ [][NextIndex]_vars

\* -------------------------------------------------------------- SpecDrop
\* One direct chat that gets one message more than the chats of
\* SpecDispatch, so that two messages can arrive behind one in flight.

DropMsgs == 1..(MaxMsgs + 1)

InitDrop ==
    /\ userLocks = [j \in JIDS |-> FALSE]
    /\ p = [m \in DropMsgs |-> Idle]
    /\ catalog = NoCatalog
    /\ sel = NoSel
    /\ inbound = NoEvent
    /\ mw = NoManhwaCall
    /\ sub = NoSubtitleCall
    /\ qrCodeDataURL = null
    /\ session = NoSession

NextDrop ==
    \E m \in DropMsgs :
        \/ MessagesUpsert(m, DirectKeys, DirectTexts)
        \/ ThinkingSent(m)
        \/ DetectMessageType(m, TRUE)
        \/ ParseIntent(m, TRUE)
        \/ ClarifySent(m)
        \/ ManhwaLoadingSent(m)
        \/ RoutedHandlerSettles(m)
        \/ MainCatchSent(m)
        \/ UpsertReturns(m)

SpecDrop == InitDrop /\ [][NextDrop]_vars

\* ------------------------------------------------------------ SpecStatus
\* startBot has made the socket; the events of connection.update arrive as
\* Baileys sends them: a QR code while the socket is connecting, "open"
\* when WhatsApp has accepted the session, "close" when the connection is
\* lost.  The handler is async and awaits only qrcode.toDataURL, so a
\* handler that got a QR code is suspended while later events are handled.

\* app.get("/"): what the page shows.
Page(url) == IF url = null THEN "connected" ELSE "login code"

InitStatus ==
    /\ userLocks = [j \in JIDS |-> FALSE]
    /\ p = [m \in Msgs |-> Idle]
    /\ catalog = NoCatalog
    /\ sel = NoSel
    /\ inbound = NoEvent
    /\ mw = NoManhwaCall
    /\ sub = NoSubtitleCall
    /\ qrCodeDataURL = null
    /\ session = [NoSession EXCEPT !.state = "connecting"]

\* connection.update with a qr: the handler calls qrcode.toDataURL(qr) and
\* is suspended on it.
QrUpdate ==
    /\ session.state = "connecting"
    /\ session.events < MaxEvents
    /\ session' = [session EXCEPT !.events = @ + 1, !.qrs = @ + 1,
                                  !.converting = @ \cup {session.qrs + 1}]
    /\ UNCHANGED <<userLocks, p, catalog, sel, inbound, mw, sub, qrCodeDataURL>>

\* qrcode.toDataURL settles for QR code n: qrCodeDataURL is assigned, or
\* the handler ends with the rejection.  The event had no connection, so
\* nothing follows in the handler.
QrConverted(n) ==
    /\ n \in session.converting
    /\ \E ok \in BOOLEAN :
        qrCodeDataURL' = IF ok THEN <<n>> ELSE qrCodeDataURL
    /\ session' = [session EXCEPT !.converting = @ \ {n}]
    /\ UNCHANGED <<userLocks, p, catalog, sel, inbound, mw, sub>>

\* connection.update with connection "open": qrCodeDataURL = null.
OpenUpdate ==
    /\ session.state = "connecting"
    /\ session.events < MaxEvents
    /\ qrCodeDataURL' = null
    /\ session' = [session EXCEPT !.events = @ + 1, !.state = "open"]
    /\ UNCHANGED <<userLocks, p, catalog, sel, inbound, mw, sub>>

\* connection.update with connection "close": startBot() makes a new
\* socket unless the session was logged out.
CloseUpdate ==
    /\ session.state \in {"connecting", "open"}
    /\ session.events < MaxEvents
    /\ \E loggedOut \in BOOLEAN :
        session' = [session EXCEPT
                        !.events = @ + 1,
                        !.state = IF loggedOut THEN "closed" ELSE "connecting"]
    /\ UNCHANGED <<userLocks, p, catalog, sel, inbound, mw, sub, qrCodeDataURL>>

NextStatus ==
    \/ QrUpdate
    \/ \E n \in 1..MaxEvents : QrConverted(n)
    \/ OpenUpdate
    \/ CloseUpdate

SpecStatus == InitStatus /\ [][NextStatus]_vars

\* ================================================================ claims

KeyOf(r) == Key(r.userId, r.participant)

\* The person who wrote a message: the participant of a group message,
\* the chat itself of a direct message.
SenderOf(key) == IF IsGroup(key.remoteJid) THEN key.participant ELSE key.remoteJid

Count(trace, event) == Cardinality({i \in DOMAIN trace : trace[i] = event})

IsStreamEvent(e) == e = Call("stream") \/ e = Delay

AllFailed(outcomes) == \A i \in DOMAIN outcomes : ~outcomes[i]

\* C1 (SpecDispatch): at every moment at most one handleMessage pipeline is
\* between its userLocks.set and its userLocks.delete for any one chat
\* identifier (remoteJid).
C1_OneInFlightPerChat ==
    \A j \in JIDS : Cardinality({m \in Msgs : InFlight(p[m]) /\ p[m].userId = j}) <= 1

\* A second message of a chat arrived while the first was in flight.
C1_Witness ==
    \E m, k \in Msgs :
        /\ InFlight(p[m])
        /\ p[k].pc = "dropped"
        /\ p[k].userId = p[m].userId

\* C2 (SpecDispatch), as claimed: a message that reaches handleMessage
\* while an earlier message of the same sender is in flight is dropped,
\* with nothing sent and nothing called for it, and a dropped message is
\* never taken up again.
C2_DroppedWhileSenderInFlight ==
    [][\A m \in Msgs :
        /\ (/\ p[m].pc = "idle"
            /\ p'[m].pc \notin {"idle", "ignored"}
            /\ \E k \in Msgs :
                /\ InFlight(p[k])
                /\ SenderOf(KeyOf(p[k])) = SenderOf(KeyOf(p'[m])))
           => (p'[m].pc = "dropped" /\ p'[m].trace = <<>>)
        /\ p[m].pc = "dropped" => p'[m] = p[m]]_vars

\* C3 (SpecDispatch): in the step in which a handleMessage call that took
\* the lock ends, in whichever way, the lock entry of its chat is absent.
C3_LockReleasedOnTermination ==
    [][\A m \in Msgs :
        (p[m].pc # "done" /\ p'[m].pc = "done") => ~userLocks'[p'[m].userId]]_vars

\* A call ended by an error thrown while the generic failure message was
\* sent, and the lock of its chat is free.
C3_Witness ==
    \E m \in Msgs :
        /\ p[m].pc = "done"
        /\ p[m].how = "threw"
        /\ ~userLocks[p[m].userId]

\* C4 (SpecDispatch), as claimed: a message is dropped by the guard only
\* when an earlier message of the same sender is in flight.
C4_DroppedOnlyBySameSender ==
    [][\A m \in Msgs :
        (p[m].pc = "idle" /\ p'[m].pc = "dropped")
        => \E k \in Msgs :
            /\ InFlight(p[k])
            /\ SenderOf(KeyOf(p[k])) = SenderOf(KeyOf(p'[m]))]_vars

\* C5 (Spec): when every request of generateStream failed and it has
\* returned, it returned null after exactly 3 requests with exactly 2
\* delays, one between each two requests and none after the last; and a
\* request is issued only after the one before it has settled.
C5_ThreeAttemptsTwoDelays ==
    \A m \in Msgs :
        /\ Count(p[m].trace, Call("stream")) =
              Len(p[m].outcomes) + (IF p[m].pc = "gs_call" THEN 1 ELSE 0)
        /\ (p[m].stream # "none" /\ AllFailed(p[m].outcomes))
           => /\ p[m].stream = "null"
              /\ Len(p[m].outcomes) = 3
              /\ SelectSeq(p[m].trace, IsStreamEvent) =
                    <<Call("stream"), Delay, Call("stream"), Delay, Call("stream")>>

\* generateStream returned null after three failed requests.
C5_Witness ==
    \E m \in Msgs :
        /\ p[m].stream = "null"
        /\ p[m].outcomes = <<FALSE, FALSE, FALSE>>
        /\ p[m].pc = "an_last"

\* C6 (Spec): generateStream returns a stream exactly when a request
\* succeeded, in the step in which the first one succeeds and with no
\* request after it; it returns null only after 3 failed requests.
C6_StreamResult ==
    \A m \in Msgs :
        LET r == p[m]
            n == Len(r.outcomes)
        IN  /\ (\E i \in 1..n : r.outcomes[i]) <=> r.stream = "ok"
            /\ r.stream = "ok"
               => /\ r.outcomes[n]
                  /\ \A i \in 1..(n - 1) : ~r.outcomes[i]
                  /\ Count(r.trace, Call("stream")) = n
            /\ r.stream = "null" => (n = 3 /\ AllFailed(r.outcomes))

\* The third request succeeded and the episode card is being sent.
C6_Witness ==
    \E m \in Msgs :
        /\ p[m].stream = "ok"
        /\ p[m].outcomes = <<FALSE, FALSE, TRUE>>
        /\ p[m].pc = "an_card"

AfterNoStream == {Rejected, Send("failedToLoad"), Send("wrong")}

\* C7 (Spec): once generateStream has returned null, "Could not generate
\* stream" has been sent once, generateStream is not called again (3
\* requests in all), and no episode card, usage log, subtitle lookup or
\* subtitle generation is issued; what follows is at most the failure
\* handling of a rejected send.
C7_NullStreamIsTerminal ==
    \A m \in Msgs :
        LET t == p[m].trace
        IN  p[m].stream = "null"
            => /\ Count(t, Send("noStream")) = 1
               /\ Count(t, Call("stream")) = 3
               /\ \A i \in DOMAIN t :
                    /\ t[i] \notin {Send("cardImage"), Send("cardText"), Call("log"),
                                    Call("subs"), Send("subtitleProgress"),
                                    Send("subtitleAvailable")}
                    /\ (\E j \in 1..(i - 1) : t[j] = Send("noStream"))
                       => t[i] \in AfterNoStream

\* "Could not generate stream" was rejected and the handler's catch runs.
C7_Witness ==
    \E m \in Msgs :
        /\ p[m].stream = "null"
        /\ p[m].pc = "an_catch"

CatalogCalls == {Call("search"), Call("episodes"), Call("stream"), Call("subs")}

ClarifyTrace == <<Send("thinking"), Call("ai"), Call("ai"), Edit("notDetected")>>

\* C8 (Spec), as claimed: for an anime message whose intent is null or
\* notFound no catalog call is issued and nothing is sent but the
\* placeholder and the clarification written over it.
C8_OnlyClarification ==
    \A m \in Msgs :
        p[m].intent.kind \in {"null", "notFound"}
        => \A i \in DOMAIN p[m].trace :
            /\ p[m].trace[i] \notin CatalogCalls
            /\ p[m].trace[i].op \in {"send", "edit"}
               => p[m].trace[i] \in {Send("thinking"), Edit("notDetected")}

\* C8 (Spec), amended: no catalog call is issued and the clarification is
\* written over the placeholder; it is the only reply unless that edit is
\* rejected, and then the catch of handleMessage sends the generic failure
\* message and nothing else.
C8_ClarificationOrFailure ==
    \A m \in Msgs :
        p[m].intent.kind \in {"null", "notFound"}
        => /\ \A i \in DOMAIN p[m].trace : p[m].trace[i] \notin CatalogCalls
           /\ \/ p[m].trace = ClarifyTrace
              \/ /\ p[m].trace = ClarifyTrace \o <<Rejected, Send("wrong")>>
                 /\ p[m].pc = "hm_catch"

\* The intent came back notFound and the clarification edit is on its way.
C8_Witness ==
    \E m \in Msgs :
        /\ p[m].intent.kind = "notFound"
        /\ p[m].pc = "clarify"

\* C9 (SpecSelect): on a non-empty list the selector returns an entry of
\* the list; when some entry's number equals the requested number it
\* returns such an entry with an empty notice, otherwise an entry whose
\* number is the maximum of the list with the "not released yet" notice.
C9_ExactElseLatest ==
    sel.op = "episode"
    => LET eps == catalog.episodes
           exact == \E i \in DOMAIN eps : Number(eps[i].number) = Number(sel.requested)
       IN  /\ \E i \in DOMAIN eps : eps[i] = sel.episode
           /\ exact => /\ Number(sel.episode.number) = Number(sel.requested)
                       /\ sel.notReleasedMessage = ""
           /\ ~exact => /\ \A i \in DOMAIN eps :
                              Number(eps[i].number) <= Number(sel.episode.number)
                        /\ sel.notReleasedMessage = NotReleased

\* No entry matched and the latest one is not the first of the list.
C9_Witness ==
    /\ sel.op = "episode"
    /\ sel.notReleasedMessage = NotReleased
    /\ Len(catalog.episodes) >= 2
    /\ sel.episode # catalog.episodes[1]

\* C10 (SpecSelect), as claimed: for episodes and for chapters an entry
\* whose number field is the string "3" is an exact match for the requested
\* number 3.
C10_CoercedMatch ==
    /\ (/\ sel.op = "episode"
        /\ sel.requested = Num(3)
        /\ \E i \in DOMAIN catalog.episodes : catalog.episodes[i].number = Str(<<3>>))
       => (Number(sel.episode.number) = 3 /\ sel.notReleasedMessage = "")
    /\ (/\ sel.op = "chapter"
        /\ sel.requested = Num(3)
        /\ \E i \in DOMAIN catalog.chapters : catalog.chapters[i].chapter_no = Str(<<3>>))
       => Number(sel.chapter.chapter_no) = 3

\* An event that passes the type, message and fromMe filters.
Eligible(e) == e.type = "notify" /\ e.hasMessage /\ ~e.fromMe

\* The event of SpecUpsert made handleMessage run.
Dispatched == inbound.state = "delivered" /\ p[1].pc # "ignored"

\* Nothing happened for the event: no lock, nothing sent, nothing called.
NothingDone ==
    /\ p[1].pc = "ignored"
    /\ p[1].trace = <<>>
    /\ \A j \in JIDS : ~userLocks[j]

\* C18 (SpecUpsert), as stated: a group message is dispatched exactly when
\* its text begins with the token "/stream" and the pipeline gets the text
\* with the token removed; a group message without the token leaves no
\* lock, call or reply; a direct message with text is dispatched with its
\* text unchanged.
C18_TokenPrefixUnchanged ==
    (inbound.state = "delivered" /\ Eligible(inbound.event))
    => LET e == inbound.event
           begins == e.text # <<>> /\ Head(e.text) = "/stream"
       IN  IF IsGroup(e.key.remoteJid)
           THEN /\ Dispatched <=> begins
                /\ Dispatched => inbound.handed = Tail(e.text)
                /\ ~begins => NothingDone
           ELSE e.text # <<>> => (Dispatched /\ inbound.handed = e.text)

\* C18 (SpecUpsert), amended: a group message is dispatched exactly when
\* its text, with the white space around it trimmed, begins with "/stream"
\* in any letter case, and the pipeline gets the trimmed text with the token
\* removed and trimmed again; any other group message leaves no lock, call
\* or reply; a direct message with text is dispatched with its text trimmed.
C18_TrimmedAnyCasePrefix ==
    (inbound.state = "delivered" /\ Eligible(inbound.event))
    => LET e == inbound.event
           t == Trim(e.text)
           begins == t # <<>> /\ Head(t) \in {"/stream", "/STREAM"}
       IN  IF IsGroup(e.key.remoteJid)
           THEN /\ Dispatched <=> begins
                /\ Dispatched => inbound.handed = Trim(Tail(t))
                /\ ~begins => NothingDone
           ELSE e.text # <<>> => (Dispatched /\ inbound.handed = t)

\* A group message " /STREAMhi" has been dispatched with the text "hi", and
\* the pipeline has sent its placeholder.
C18_Witness ==
    /\ Dispatched
    /\ Eligible(inbound.event)
    /\ IsGroup(inbound.event.key.remoteJid)
    /\ inbound.event.text = <<" ", "/STREAM", "hi">>
    /\ inbound.handed = <<"hi">>
    /\ p[1].pc = "thinking"
    /\ userLocks[G1]

\* C17 (SpecSelect): best-match selection over a non-empty candidate list
\* returns a member of the list: the candidate whose id the AI named when
\* that id is in the list, the first candidate otherwise.
C17_NamedCandidateElseFirst ==
    sel.op \in {"bestAnime", "bestManhwa"}
    => LET rs == catalog.results
           named == {j \in 1..Len(rs) : Number(rs[j].id) = DecimalValue(sel.reply)}
       IN  /\ \E j \in 1..Len(rs) : sel.best = rs[j]
           /\ IF sel.reply # <<>> /\ named # {}
              THEN Number(sel.best.id) = DecimalValue(sel.reply)
              ELSE sel.best = rs[1]

RECURSIVE SumOfSizes(_)
SumOfSizes(chunks) ==
    IF chunks = <<>> THEN 0
    ELSE Head(chunks).end - Head(chunks).start + 1 + SumOfSizes(Tail(chunks))

\* C13 (SpecChunks): a base subtitle of n >= 1 lines is cut into ceil(n/100)
\* ranges; the first starts at 0, the last ends at n-1, each next range
\* starts right after the previous one, every range but the last has 100
\* lines and the last at most 100, so the sizes add up to n.
C13_ChunksPartitionLines ==
    sub.pc = "chunks"
    => LET c == sub.chunks
           n == sub.n
           k == Len(c)
       IN  /\ k = (n + 99) \div 100
           /\ c[1].start = 0
           /\ c[k].end = n - 1
           /\ \A i \in 1..(k - 1) : c[i + 1].start = c[i].end + 1
           /\ \A i \in 1..(k - 1) : c[i].end - c[i].start + 1 = 100
           /\ c[k].end - c[k].start + 1 \in 1..100
           /\ SumOfSizes(c) = n

\* 201 lines have been cut into three ranges, the last of one line.
C13_Witness ==
    /\ sub.pc = "chunks"
    /\ sub.n = 201
    /\ sub.chunks = <<[start |-> 0, end |-> 99], [start |-> 100, end |-> 199],
                      [start |-> 200, end |-> 200]>>

\* What translate_chunk.php answered for chunk i, from the completion
\* history: its translation, or the empty string after a failure.
TextOf(i) ==
    LET e == CHOOSE e \in {sub.order[j] : j \in DOMAIN sub.order} : e.index = i
    IN  IF e.ok THEN <<i>> ELSE <<>>

RECURSIVE InIndexOrder(_)
InIndexOrder(i) ==
    IF i > Len(sub.chunks) THEN <<>>
    ELSE (IF i > 1 THEN <<0>> ELSE <<>>) \o TextOf(i) \o InIndexOrder(i + 1)

\* C12 (SpecSubtitle): the subtitle that is saved is the chunk results
\* joined by newline in ascending chunk index, whatever the order in which
\* the translation calls completed.
C12_JoinedInChunkOrder ==
    (sub.pc # "none" /\ sub.save # "none") => sub.content = InIndexOrder(1)

\* Three chunks completed in the order 3, 1, 2 and were saved as 1, 2, 3.
C12_Witness ==
    /\ sub.pc # "none"
    /\ sub.save = "ok"
    /\ Len(sub.order) = 3
    /\ sub.order[1].index = 3 /\ sub.order[2].index = 1 /\ sub.order[3].index = 2
    /\ sub.content = <<1, 0, 2, 0, 3>>

\* C14 (SpecSubtitle): one translation call per chunk; a failed call leaves
\* the empty string for its chunk, is not made again, and when nothing else
\* fails the subtitle is still joined, saved, stored and reported ready.
C14_ChunkFailureNotFatal ==
    (sub.pc # "none" /\ sub.chunk # <<>>)
    => /\ \A i \in DOMAIN sub.chunk : sub.calls[i] = 1
       /\ \A j \in DOMAIN sub.order :
              ~sub.order[j].ok
              => sub.results[sub.order[j].index] = [set |-> TRUE, text |-> <<>>]
       /\ (sub.pc = "done" /\ sub.failed = "none")
              => /\ sub.ret = "url"
                 /\ sub.save = "ok" /\ sub.store = "ok" /\ sub.ready = "ok"
                 /\ sub.content = InIndexOrder(1)

\* The translation of chunk 2 of 3 failed and the subtitle was reported
\* ready with an empty string in its place.
C14_Witness ==
    /\ sub.pc = "done"
    /\ sub.ret = "url"
    /\ Len(sub.order) = 3
    /\ \E j \in 1..3 : sub.order[j] = [index |-> 2, ok |-> FALSE]
    /\ sub.content = <<1, 0, 0, 3>>

\* C15 (SpecSubtitle), as stated: the URL is returned only after the base
\* fetch, the save, the store and the success edit all succeeded; when the
\* base fetch, the save or the store throws there is exactly one failure
\* edit and null is returned.
C15_OneFailureEditThenNull ==
    sub.pc = "done"
    => /\ sub.ret = "url"
          => (sub.chunks # <<>> /\ sub.save = "ok" /\ sub.store = "ok"
              /\ sub.ready = "ok")
       /\ sub.failed \in {"fetch", "save", "store"}
          => (sub.failEdits = 1 /\ sub.ret = "null")

\* C15 (SpecSubtitle), amended: as above, but null is returned only when
\* the failure edit goes through; when the failure edit is itself rejected
\* the call ends with that rejection instead of a value.  The URL is never
\* returned after a failure.
C15_OneFailureEditThenNullOrRejection ==
    sub.pc = "done"
    => /\ sub.ret = "url"
          => (sub.chunks # <<>> /\ sub.save = "ok" /\ sub.store = "ok"
              /\ sub.ready = "ok" /\ sub.failed = "none")
       /\ sub.failed \in {"fetch", "save", "store"}
          => /\ sub.failEdits = 1
             /\ sub.failEdit = "ok" => sub.ret = "null"
             /\ sub.failEdit = "rejected" => sub.ret = "throws"
             /\ sub.failEdit \in {"ok", "rejected"}

\* The metadata store failed after a successful save; one failure edit was
\* made and null returned.
C15_Witness ==
    /\ sub.pc = "done"
    /\ sub.failed = "store"
    /\ sub.save = "ok"
    /\ sub.failEdits = 1
    /\ sub.ret = "null"

\* C16 (SpecSubtitle): the save is posted only after every chunk callback
\* has settled, the metadata store only after the save succeeded, the
\* success edit only after the store succeeded; nothing is stored for a
\* subtitle whose save failed.
C16_PersistenceOrdered ==
    sub.pc # "none"
    => /\ sub.save # "none"
          => (sub.chunk # <<>> /\ \A i \in DOMAIN sub.chunk : sub.chunk[i] = "done")
       /\ sub.store # "none" => sub.save = "ok"
       /\ sub.ready # "none" => sub.store = "ok"
       /\ sub.save = "failed" => sub.store = "none"

\* Three chunks settled, then save, store and the success edit went through.
C16_Witness ==
    /\ sub.pc = "done"
    /\ Len(sub.chunk) = 3
    /\ sub.save = "ok" /\ sub.store = "ok" /\ sub.ready = "ok"
    /\ sub.ret = "url"

\* The events of a trace after the first occurrence of an event.
RECURSIVE After(_, _)
After(trace, event) ==
    IF trace = <<>> THEN <<>>
    ELSE IF Head(trace) = event THEN Tail(trace)
    ELSE After(Tail(trace), event)

\* C11 (SpecManhwa): the chapter whose number equals the requested number
\* is selected when there is one, else the first chapter; with an empty
\* chapter list "No chapters available" is sent and no image is fetched.
C11_ChapterExactElseFirst ==
    (mw.pc # "none" /\ mw.details = "ok")
    => LET cs == mw.chapters
           r == mw.intent.chapter
           exact == {j \in 1..Len(cs) : Number(cs[j].chapter_no) = Number(r)}
       IN  IF cs = <<>>
           THEN /\ mw.stage = "noChapters"
                /\ Count(mw.trace, Send("noChapters")) = 1
                /\ Count(mw.trace, Call("images")) = 0
                /\ Count(mw.trace, Call("primary")) = 0
           ELSE IF exact # {}
           THEN Number(mw.chapter.chapter_no) = Number(r)
           ELSE mw.chapter = cs[1]

\* The failure message of each stage.
StageOf(s) ==
    IF s.intent.kind \in {"null", "notFound"} THEN "noTitle"
    ELSE IF s.results = "empty" THEN "notFound"
    ELSE IF s.details = "null" THEN "noDetails"
    ELSE IF s.details = "ok" /\ s.chapters = <<>> THEN "noChapters"
    ELSE IF s.images = "empty" THEN "noImages"
    ELSE IF s.downloaded /\ s.buffers = <<>> THEN "downloadFailed"
    ELSE "none"

\* C19 (SpecManhwa): the document is sent only after every stage
\* succeeded; a stage that fails sends its own failure message once, and
\* after it nothing but the catch of a rejected send happens: no further
\* call, no document.
C19_DocumentOnlyAfterEveryStage ==
    mw.pc # "none"
    => /\ Count(mw.trace, Send("document")) > 0
          => /\ mw.intent.kind = "found"
             /\ mw.results = "some"
             /\ mw.details = "ok"
             /\ mw.chapter # NoChapter
             /\ mw.images = "some"
             /\ mw.buffers # <<>>
       /\ StageOf(mw) # "none"
          => /\ Count(mw.trace, Send(StageOf(mw))) = 1
             /\ Count(mw.trace, Send("document")) = 0
             /\ \A k \in DOMAIN After(mw.trace, Send(StageOf(mw))) :
                    After(mw.trace, Send(StageOf(mw)))[k]
                        \in {Rejected, Send("unexpected")}

\* Both fetches of both pages failed: "Failed to download images" was sent
\* and the handler returned.
C19_Witness ==
    /\ mw.pc = "done"
    /\ mw.ret = "returned"
    /\ mw.nImg = 2
    /\ mw.proxy = <<"failed", "failed">>
    /\ mw.trace[Len(mw.trace)] = Send("downloadFailed")

\* The pages of 1..n that pass Keep, in page order.
RECURSIVE PagesKept(_, _, _)
PagesKept(k, n, s) ==
    IF k > n THEN <<>>
    ELSE (IF s.primary[k] = "ok" \/ s.proxy[k] = "ok" THEN <<k>> ELSE <<>>)
         \o PagesKept(k + 1, n, s)

\* C20 (SpecManhwa): every page has one primary fetch; the proxy is asked
\* once, and only for a page whose primary fetch failed; the buffers
\* returned are the pages one of whose fetches succeeded, in page order.
C20_PrimaryThenProxyOnce ==
    (mw.pc # "none" /\ mw.images = "some")
    => /\ \A k \in 1..mw.nImg : mw.proxy[k] # "none" => mw.primary[k] = "failed"
       /\ Count(mw.trace, Call("primary"))
              = Cardinality({k \in 1..mw.nImg : mw.primary[k] # "none"})
       /\ Count(mw.trace, Call("proxy"))
              = Cardinality({k \in 1..mw.nImg : mw.proxy[k] # "none"})
       /\ mw.downloaded
          => /\ \A k \in 1..mw.nImg :
                    /\ mw.primary[k] \in {"ok", "failed"}
                    /\ mw.proxy[k] \in {"none", "ok", "failed"}
             /\ mw.buffers = PagesKept(1, mw.nImg, mw)

\* Three pages: the first from the primary fetch, the second from the
\* proxy, the third dropped.
C20_Witness ==
    /\ mw.pc # "none"
    /\ mw.downloaded
    /\ mw.primary = <<"ok", "failed", "failed">>
    /\ mw.proxy = <<"none", "ok", "failed">>
    /\ mw.buffers = <<1, 2>>

RECURSIVE SumOfHeights(_)
SumOfHeights(strips) ==
    IF strips = <<>> THEN 0 ELSE Head(strips).height + SumOfHeights(Tail(strips))

\* The pages of one image once normalizeAndSplitImages is through with it.
StripsCoverImage ==
    mw.pc = "pushed"
    => LET f == mw.finalPages
           H == mw.height
           k == Len(f)
       IN  /\ k = IF H <= 2000 THEN 1 ELSE (H + 1999) \div 2000
           /\ f[1].top = 0
           /\ \A i \in 1..(k - 1) : f[i + 1].top = f[i].top + f[i].height
           /\ \A i \in 1..k : f[i].height \in 1..2000
           /\ SumOfHeights(f) = H

\* C21 (SpecStrips): an image of height H <= maxHeight gives one page; a
\* taller one gives ceil(H/maxHeight) strips, the first at the top, each
\* starting where the previous one ends, each 1..maxHeight high, the
\* heights adding up to H; and the slicing loop comes to an end.
C21_StripsCoverImageAndLoopEnds == [](StripsCoverImage) /\ <>(mw.pc = "pushed")

\* An image 4001 pixels high has been cut into strips of 2000, 2000 and 1.
C21_Witness ==
    /\ mw.pc = "pushed"
    /\ mw.height = 4001
    /\ mw.finalPages = <<[top |-> 0, height |-> 2000], [top |-> 2000, height |-> 2000],
                         [top |-> 4000, height |-> 1]>>

\* C23 (SpecDispatch): no error leaves handleMessage: an error that left a
\* routed handler is caught by the catch block of handleMessage, the
\* generic failure message is sent and the lock is released, for every
\* failure including a send that is rejected.
C23_NoErrorLeavesHandleMessage ==
    \A m \in Msgs :
        p[m].pc = "done" => p[m].how # "threw"

\* The percentages of the progress edits, in the order they were issued.
RECURSIVE PercentsOf(_)
PercentsOf(edits) ==
    IF edits = <<>> THEN <<>>
    ELSE IF Head(edits).text = "percent"
    THEN <<Head(edits).percent>> \o PercentsOf(Tail(edits))
    ELSE PercentsOf(Tail(edits))

\* The chunks whose translation call has settled.
SettledChunks == {i \in DOMAIN sub.chunk : sub.chunk[i] # "translating"}

C30_NoPercentAfterReturn ==
    [][(sub.pc = "done" /\ sub.ret \in {"url", "null"})
         => PercentsOf(sub'.edits) = PercentsOf(sub.edits)]_vars

\* C25 (Spec): the "Thinking" placeholder is the first message a pipeline
\* sends and goes out before any classification call, and everything the
\* pipeline sends after it is an edit of that placeholder, never a new
\* message (stated for pipelines in which no sendMessage was rejected).
C25_PlaceholderThenEditsOnly ==
    \A m \in Msgs :
        LET t == p[m].trace
        IN  (t # <<>> /\ Count(t, Rejected) = 0)
            => /\ t[1] = Send("thinking")
               /\ \A i \in DOMAIN t : t[i].op = "send" => i = 1

\* The messages of a trace that are episode cards.
Cards(t) == Count(t, Send("cardImage")) + Count(t, Send("cardText"))

\* The entries of the episode list that carry the requested number.
Requested(r) == {i \in DOMAIN catalog.episodes :
                    Number(catalog.episodes[i].number) = Number(r.intent.episode)}

\* C26 (Spec): no pipeline sends more than one episode card; when stream
\* generation has succeeded for an episode list that holds the requested
\* number, one card has been sent: its caption has no not-released notice
\* and carries the title of the selected anime, the requested episode
\* number and the player URL of the episode with that number, and it is
\* the caption of the poster image exactly when the anime has a poster.
C26_OneCardWithCaption ==
    \A m \in Msgs :
        LET r == p[m]
        IN  /\ Cards(r.trace) <= 1
            /\ (r.stream = "ok" /\ Requested(r) # {})
               => /\ Cards(r.trace) = 1
                  /\ r.anime \in {catalog.results[i] : i \in DOMAIN catalog.results}
                  /\ r.caption.title = r.anime.title
                  /\ r.caption.notice = ""
                  /\ Number(r.caption.number) = Number(r.intent.episode)
                  /\ \E i \in Requested(r) :
                        r.caption.player = Player(catalog.episodes[i].id)
                  /\ r.caption.image = r.anime.poster
                  /\ Count(r.trace, Send("cardImage")) = 1 <=> r.anime.poster

\* Episode 2 of the anime with a poster was asked for and its card has been
\* sent with the poster, after a first stream attempt that failed.
C26_Witness ==
    \E m \in Msgs :
        /\ p[m].pc = "an_card"
        /\ p[m].intent.episode = Num(2)
        /\ p[m].anime.title = "A"
        /\ p[m].outcomes = <<FALSE, TRUE>>
        /\ p[m].caption = [notice |-> "", title |-> "A", number |-> Str(<<2>>),
                           player |-> Player(2), image |-> TRUE]

\* The pages the buffers give, each cut into its number of strips.
RECURSIVE PagesOf(_, _)
PagesOf(buffers, strips) ==
    IF buffers = <<>> \/ strips = <<>> THEN <<>>
    ELSE [t \in 1..Head(strips) |-> [image |-> Head(buffers), strip |-> t]]
         \o PagesOf(Tail(buffers), Tail(strips))

RECURSIVE SumOf(_)
SumOf(numbers) == IF numbers = <<>> THEN 0 ELSE Head(numbers) + SumOf(Tail(numbers))

\* C22 (SpecManhwa): the document is sent at most once; when it is sent,
\* every downloaded image has been normalized and the document holds one
\* page per strip, image by image and strip by strip, as many pages as the
\* strips of all downloaded images together; its caption is that of the
\* selected chapter; and what follows the document message is "Chapter
\* ready" (or the rejection of the document message).
C22_OnePagePerStrip ==
    mw.pc # "none"
    => LET t == mw.trace
       IN  /\ Count(t, Send("document")) <= 1
           /\ Count(t, Send("ready")) <= Count(t, Send("document"))
           /\ Count(t, Send("document")) = 1
              => /\ Len(mw.strips) = Len(mw.buffers)
                 /\ mw.doc = PagesOf(mw.buffers, mw.strips)
                 /\ Len(mw.doc) = SumOf(mw.strips)
                 /\ mw.caption = mw.chapter /\ mw.chapter # NoChapter
           /\ \A k \in DOMAIN t :
                (t[k] = Send("document") /\ k < Len(t))
                => t[k + 1] \in {Send("ready"), Rejected}
           /\ \A k \in DOMAIN t :
                t[k] = Send("ready") => k > 1 /\ t[k - 1] = Send("document")

\* Of three pages the second could not be downloaded; the first image gave
\* two strips and the third one: a document of three pages was sent,
\* "Chapter ready" after it, and the handler returned.
C22_Witness ==
    /\ mw.pc = "done"
    /\ mw.ret = "returned"
    /\ mw.buffers = <<1, 3>>
    /\ mw.strips = <<2, 1>>
    /\ mw.doc = <<[image |-> 1, strip |-> 1], [image |-> 1, strip |-> 2],
                  [image |-> 3, strip |-> 1]>>
    /\ mw.trace[Len(mw.trace)] = Send("ready")

\* C27 (SpecManhwa): an image that cannot be normalized is skipped: when
\* at least one image was downloaded and normalized, no sendMessage was
\* rejected and no page failed in imagesToPDF, the handler ends with the
\* document sent.
C27_ImageFailureSkipped ==
    (/\ mw.pc = "done"
     /\ Len(mw.strips) >= 1
     /\ Count(mw.trace, Rejected) = 0
     /\ Count(mw.trace, Threw("metadata")) = 0)
    => Count(mw.trace, Send("document")) = 1

\* The items a progress message of the kind was sent for, in order.
RECURSIVE ItemsOf(_, _)
ItemsOf(trace, what) ==
    IF trace = <<>> THEN <<>>
    ELSE IF Head(trace).op = "send" /\ Head(trace).what = what
    THEN <<[i |-> Head(trace).i, n |-> Head(trace).n]>> \o ItemsOf(Tail(trace), what)
    ELSE ItemsOf(Tail(trace), what)

\* Of the items 1..done of n, those whose 0-based index is even or the
\* last, in order.
RECURSIVE EvenOrLast(_, _, _)
EvenOrLast(k, done, n) ==
    IF k > done THEN <<>>
    ELSE (IF (k - 1) % 2 = 0 \/ k - 1 = n - 1 THEN <<[i |-> k, n |-> n]>> ELSE <<>>)
         \o EvenOrLast(k + 1, done, n)

\* The pages whose download is through, with a buffer or without.
PagesThrough ==
    Cardinality({k \in 1..mw.nImg :
                    mw.primary[k] = "ok" \/ mw.proxy[k] \in {"ok", "failed"}})

\* C28 (SpecManhwa): the "Downloading pages" messages sent so far are those
\* of the finished items with an even 0-based index and of the last item,
\* one each and in order, and so are the "Generating PDF" messages for the
\* pages added so far; when a loop is through its last message says n/n.
C28_ProgressCadence ==
    (mw.pc # "none" /\ mw.images = "some")
    => LET down == ItemsOf(mw.trace, "downloading")
           gen == ItemsOf(mw.trace, "generating")
       IN  /\ down = EvenOrLast(1, PagesThrough, mw.nImg)
           /\ gen = EvenOrLast(1, Len(mw.doc), mw.pages)
           /\ mw.downloaded => down[Len(down)] = [i |-> mw.nImg, n |-> mw.nImg]
           /\ Count(mw.trace, Send("document")) = 1
              => gen[Len(gen)] = [i |-> mw.pages, n |-> mw.pages]

\* Three pages were downloaded and cut into four pages: progress was sent
\* for pages 1 and 3 of 3, then for pages 1, 3 and 4 of 4.
C28_Witness ==
    /\ mw.pc = "document"
    /\ ItemsOf(mw.trace, "downloading") = <<[i |-> 1, n |-> 3], [i |-> 3, n |-> 3]>>
    /\ ItemsOf(mw.trace, "generating")
           = <<[i |-> 1, n |-> 4], [i |-> 3, n |-> 4], [i |-> 4, n |-> 4]>>

\* The request a pipeline had issued when the error was caught.
RequestOf(what) ==
    IF what \in {"detect", "choose"} THEN Call("ai") ELSE Call(what)

\* What handleMessage and handleAnimeRequest do with the empty result of a
\* request: the general reply for an unknown type, its default sentence,
\* the subtitle logic after the usage log, the regular expressions for the
\* intent, "Anime not found", the first candidate, "Episodes unavailable",
\* a subtitle to generate.
AnimeEmptyPath(what) ==
    IF what = "detect" THEN {Call("reply")}
    ELSE IF what = "reply" THEN {Edit("replyDefault")}
    ELSE IF what = "log" THEN {Call("subs")}
    ELSE IF what = "intent" THEN {Edit("notDetected"), Edit("finding")}
    ELSE IF what = "search" THEN {Send("animeNotFound")}
    ELSE IF what = "choose" THEN {Call("episodes")}
    ELSE IF what = "episodes" THEN {Send("episodesUnavailable")}
    ELSE {Send("subtitleProgress")}

\* What handleManhwaRequest does with the empty result of a request.
ManhwaEmptyPath(what) ==
    IF what = "intent" THEN {Send("noTitle")}
    ELSE IF what = "search" THEN {Send("notFound")}
    ELSE IF what = "choose" THEN {Call("details")}
    ELSE IF what = "details" THEN {Send("noDetails")}
    ELSE {Send("noImages")}

\* C24 (SpecHandlers): when a request to the AI, the catalog or the
\* subtitle list fails, the function that made it returns its empty value
\* and the caller goes on as it does for that value: right after the
\* request the pipeline issues what belongs to the empty result, never
\* the failure message of a catch block.
C24_FailedRequestIsEmptyResult ==
    /\ \A m \in Msgs :
        LET r == p[m]
            what == r.caught.what
            at == r.caught.at
        IN  what # "none"
            => /\ at < Len(r.trace)
               /\ r.trace[at] = (IF what = "intent" THEN Call("ai") ELSE RequestOf(what))
               /\ r.trace[at + 1] \in AnimeEmptyPath(what)
               /\ what = "choose" => r.anime = catalog.results[1]
               /\ what = "intent" => r.intent \in Fallbacks
    /\ (mw.pc # "none" /\ mw.caught.what # "none")
       => LET what == mw.caught.what
              at == mw.caught.at
          IN  /\ at < Len(mw.trace)
              /\ mw.trace[at] = RequestOf(what)
              /\ mw.trace[at + 1] \in ManhwaEmptyPath(what)
              /\ what = "intent" => mw.intent.kind = "null"
              /\ what = "search" => mw.results = "empty"
              /\ what = "details" => mw.details = "null"
              /\ what = "images" => mw.images = "empty"

\* The request for the manhwa details failed and "Failed to load details"
\* was sent.
C24_Witness ==
    /\ mw.pc = "last"
    /\ mw.caught.what = "details"
    /\ mw.trace[Len(mw.trace)] = Send("noDetails")

\* No translation request, no save and no store has been made.
NothingTranslatedOrPersisted ==
    /\ sub.chunk = <<>>
    /\ sub.calls = <<>>
    /\ sub.order = <<>>
    /\ sub.save = "none"
    /\ sub.store = "none"

\* The messages generateSubtitle has issued after the "0%" message.
MessagesAfterProgress ==
    Len(sub.edits) + (IF sub.noBase = "none" THEN 0 ELSE 1)

\* C31 (SpecSubtitle), as stated: when the base subtitle is empty or its
\* fetch fails, generateSubtitle issues one message, returns null, makes no
\* translation and no persistence call, and has asked for the base once.
C31_NoBaseOneMessageThenNull ==
    (sub.pc = "done" /\ sub.base \in {"empty", "throws"})
    => /\ MessagesAfterProgress = 1
       /\ sub.ret = "null"
       /\ NothingTranslatedOrPersisted
       /\ sub.fetches = 1

\* C31 (SpecSubtitle), amended: the base is asked for once and nothing is
\* translated or persisted.  An empty base gives the "No base subtitle"
\* message and, when it is accepted, null and nothing else; a failed fetch
\* gives one failure edit.  When the "No base subtitle" message is
\* rejected the failure edit follows it, and when the failure edit is
\* rejected generateSubtitle ends with that rejection instead of null.
C31_NoBaseMessageThenNullOrRejection ==
    (sub.pc = "done" /\ sub.base \in {"empty", "throws"})
    => /\ NothingTranslatedOrPersisted
       /\ sub.fetches = 1
       /\ sub.ret \in {"null", "throws"}
       /\ sub.ret = "throws" <=> sub.failEdit = "rejected"
       /\ sub.base = "throws"
          => (sub.noBase = "none" /\ sub.edits = <<FailureEdit>>)
       /\ (sub.base = "empty" /\ sub.noBase = "ok")
          => (sub.edits = <<>> /\ sub.ret = "null")
       /\ (sub.base = "empty" /\ sub.noBase # "ok")
          => (sub.noBase = "rejected" /\ sub.edits = <<FailureEdit>>)

\* The base was empty, "No base subtitle" was accepted and null returned.
C31_Witness ==
    /\ sub.pc = "done"
    /\ sub.base = "empty"
    /\ sub.noBase = "ok"
    /\ sub.ret = "null"
    /\ sub.fetches = 1

\* The episode card has been sent and was accepted: the usage log, which
\* follows it, has been posted.
CardDelivered(t) ==
    /\ Count(t, Send("cardImage")) + Count(t, Send("cardText")) = 1
    /\ Count(t, Call("log")) = 1

\* C32 (Spec): generateSubtitle is started only for an intent that asks
\* for a subtitle, after the episode card was sent, and when no subtitle
\* of the episode has the requested language in any letter case (English
\* when the intent names none); when one has, "Subtitle already
\* available" is sent and generateSubtitle is not started.
C32_SubtitleOnlyWhenAskedAndMissing ==
    \A m \in Msgs :
        LET r == p[m]
            lang == IF r.intent.subtitleLang = "" THEN "English"
                    ELSE r.intent.subtitleLang
            matches == {i \in 1..Len(r.subs) :
                            ToLowerCase(r.subs[i].lang) = ToLowerCase(lang)}
        IN  /\ Count(r.trace, Send("subtitleProgress")) >= 1
               => /\ r.intent.subtitle
                  /\ CardDelivered(r.trace)
                  /\ matches = {}
                  /\ Count(r.trace, Send("subtitleAvailable")) = 0
            /\ (r.pc = "an_subs" \/ Count(r.trace, Call("subs")) >= 1)
               => (r.intent.subtitle /\ CardDelivered(r.trace))
            /\ (r.pc \in {"an_last", "gensub"} /\ Count(r.trace, Call("subs")) = 1
                /\ matches # {})
               => /\ r.pc = "an_last"
                  /\ r.trace[Len(r.trace)] = Send("subtitleAvailable")
                  /\ Count(r.trace, Send("subtitleProgress")) = 0

\* A subtitle "english" exists, the intent names no language, and the
\* user is told the subtitle is available.
C32_Witness ==
    \E m \in Msgs :
        /\ p[m].pc = "an_last"
        /\ p[m].intent.subtitle
        /\ p[m].intent.subtitleLang = ""
        /\ p[m].subs # <<>>
        /\ p[m].subs[1].lang = "english"
        /\ p[m].trace[Len(p[m].trace)] = Send("subtitleAvailable")

\* The replies logWAUsage records: the episode card and the general reply.
RecordedReplies ==
    {Send("cardImage"), Send("cardText"), Edit("replyAI"), Edit("replyDefault")}

\* C33 (Spec): the usage log is posted right after the reply it records
\* was sent and accepted, and whether the post succeeds or fails the
\* pipeline goes on as it does after a successful post: to the subtitle
\* list or to its normal end, with what was sent left as it was and no
\* failure message.
C33_LogAfterReplyAndSwallowed ==
    [][\A m \in Msgs :
        LET r == p[m]
            q == p'[m]
        IN  /\ (q.pc \in {"an_log", "gen_log"} /\ r.pc # q.pc)
               => /\ r.pc \in {"an_card", "gen_edit"}
                  /\ r.trace[Len(r.trace)] \in RecordedReplies
                  /\ q.trace = Append(r.trace, Call("log"))
            /\ Count(q.trace, Call("log")) > Count(r.trace, Call("log"))
               => q.pc \in {"an_log", "gen_log"}
            /\ (r.pc \in {"an_log", "gen_log"} /\ q # r)
               => \/ q.pc = "done" /\ q.how = "normal"
                  \/ /\ r.pc = "an_log"
                     /\ r.intent.subtitle
                     /\ q.pc = "an_subs"
                     /\ q.trace = Append(r.trace, Call("subs"))
                     /\ q.caption = r.caption]_vars

\* The post of the usage log failed after an episode card and the
\* pipeline went on to the subtitle list.
C33_Witness ==
    \E m \in Msgs :
        /\ p[m].pc = "an_subs"
        /\ p[m].caught.what = "log"
        /\ p[m].trace[Len(p[m].trace)] = Call("subs")
        /\ Count(p[m].trace, Send("failedToLoad")) = 0

\* C34 (Spec): whatever the classifier request brings other than a JSON
\* object of type anime or manhwa (another type, no type, a failed
\* request, an empty reply, no JSON, JSON that does not parse), the message
\* goes to the general reply: generalReply is asked next, and the edit of
\* the placeholder that follows carries the text of the AI, or the default
\* sentence when the AI returned nothing.
C34_EverythingElseIsGeneral ==
    \A m \in Msgs :
        LET r == p[m]
            t == r.trace
        IN  (r.detected.how # "none"
             /\ ~(r.detected.how = "object" /\ r.detected.type \in {"anime", "manhwa"}))
            => /\ r.pc \in {"gen_ai", "gen_edit", "gen_log", "gen_catch", "hm_catch"}
               /\ t[1] = Send("thinking")
               /\ t[2] = Call("ai")
               /\ t[3] = Call("reply")
               /\ r.pc # "gen_ai"
                  => /\ Len(t) >= 4
                     /\ r.reply = "nothing" => t[4] = Edit("replyDefault")
                     /\ r.reply = "text" => t[4] = Edit("replyAI")
                     /\ r.reply \in {"nothing", "text"}

\* The classifier's reply held JSON that does not parse, the AI then
\* returned nothing, and the default sentence was written.
C34_Witness ==
    \E m \in Msgs :
        /\ p[m].detected.how = "malformed"
        /\ p[m].reply = "nothing"
        /\ p[m].pc = "gen_log"
        /\ p[m].trace[4] = Edit("replyDefault")

\* C35 (SpecStatus): the page shows the "connected" text exactly when the
\* session is authenticated, and the login code otherwise.
C35_PageShowsSessionState ==
    Page(qrCodeDataURL) = "connected" <=> session.state = "open"

\* C36 (SpecDrop): a message that is dropped because its chat is locked
\* leaves the lock map and the pipeline in flight as they are; a message
\* that reaches handleMessage while the lock is held is dropped, the
\* second behind a pipeline as well as the first; and the lock is held as
\* long as the pipeline that took it is in flight.
C36_DropLeavesLockHeld ==
    [][\A m \in DropMsgs :
        /\ (p[m].pc = "idle" /\ p'[m].pc = "dropped")
           => /\ userLocks' = userLocks
              /\ \E k \in DropMsgs :
                    /\ InFlight(p[k])
                    /\ p[k].userId = p'[m].userId
                    /\ p'[k] = p[k]
        /\ (p[m].pc = "idle" /\ p'[m].pc \notin {"idle", "ignored"}
            /\ userLocks[p'[m].userId])
           => p'[m].pc = "dropped"
        /\ (InFlight(p[m]) /\ InFlight(p'[m]))
           => (userLocks[p[m].userId] /\ userLocks'[p[m].userId])]_vars

\* Two messages were dropped behind the first, which is still in flight
\* and holds the lock.
C36_Witness ==
    /\ InFlight(p[1])
    /\ p[2].pc = "dropped"
    /\ p[3].pc = "dropped"
    /\ p[2].userId = p[1].userId
    /\ p[3].userId = p[1].userId
    /\ userLocks[p[1].userId]

\* C37 (SpecLive): when every awaited operation settles, a lock that is
\* held is released, a generateSubtitle call that was started ends, and a
\* message that reaches handleMessage while its chat is not locked is not
\* dropped.
C37_LockEventuallyReleased ==
    /\ ((\E j \in JIDS : userLocks[j]) \/ (\E m \in Msgs : InFlight(p[m])))
            ~> ((\A j \in JIDS : ~userLocks[j]) /\ (\A m \in Msgs : ~InFlight(p[m])))
    /\ (sub.pc \notin {"none", "done"}) ~> (sub.pc = "done")
    /\ [][\A m \in Msgs :
            (p[m].pc = "idle" /\ p'[m].pc \notin {"idle", "ignored"}
             /\ ~userLocks[p'[m].userId])
            => (p'[m].pc # "dropped" /\ (InFlight(p'[m]) => userLocks'[p'[m].userId]))]_vars

\* The first pipeline of a chat has ended after its stream could not be
\* generated and released the lock, and the second message of the chat was
\* accepted.
C37_Witness ==
    /\ p[1].pc \in {"done", "returned"}
    /\ InFlight(p[2])
    /\ p[2].pc = "gs_delay"
    /\ userLocks[p[2].userId]

\* The messages that end an anime request.
TerminalOutcomes ==
    {Send("animeNotFound"), Send("episodesUnavailable"), Send("noStream"),
     Send("failedToLoad"), Send("cardImage"), Send("cardText")}

\* C38 (Spec): one anime request gets at most one of "Anime not found",
\* "Episodes unavailable", "Could not generate stream", "Failed to load
\* episode" and the episode card; stated for the requests all of whose
\* messages WhatsApp accepted.
C38_OneTerminalOutcome ==
    \A m \in Msgs :
        LET t == p[m].trace
        IN  Count(t, Rejected) = 0
            => Cardinality({i \in DOMAIN t : t[i] \in TerminalOutcomes}) <= 1

\* C39 (SpecIndex): in index.js an anime request with an intent is handled
\* as in part_000: handleAnimeRequest edits the placeholder to "Finding
\* your episode" through the socket of startBot and goes on to the card;
\* no error is thrown and "Something went wrong" is not sent while every
\* send is accepted.
C39_IndexSendsThroughSocket ==
    \A m \in Msgs :
        LET t == p[m].trace
        IN  (p[m].intent.kind = "found" /\ Count(t, Rejected) = 0)
            => /\ Count(t, Threw("ReferenceError")) = 0
               /\ Count(t, Send("wrong")) = 0
               /\ Count(t, Edit("finding")) = 1

====
